---- MODULE Spec2Model ----
(***************************************************************************)
(* A model of cc/cc.go: the planning core that turns declared C/C++        *)
(* modules into variants (linkageMutator), classified dependency names    *)
(* (Module.deps), typed edges (Module.depsMutator) and a resolved build    *)
(* plan (Module.GenerateAndroidBuildActions, Module.depsToPaths, the      *)
(* compilers and the linkers).                                             *)
(*                                                                         *)
(* Every module of the model is declared with stl "none" and without      *)
(* sanitizers or extra features, so the stl, sanitize and feature stages  *)
(* (whose sources are cc/stl.go and cc/sanitize.go) contribute no names   *)
(* and no flags.  Generated sources and headers (genrule modules) are not *)
(* modelled.                                                               *)
(***************************************************************************)
EXTENDS Integers, Sequences, FiniteSets, TLC

VARIABLES
    mods,        \* variant id -> the variant's properties (declared and mutated)
    pc,          \* variant id -> "new" | the last mutator that ran on it | "built"
    classified,  \* variant id -> the Deps record Module.deps returned
    edges,       \* variant id -> the direct dependency edges, in the order added
    missingDeps, \* variant id -> the module context's missing dependencies
    errs,        \* variant id -> the errors reported on the variant
    built,       \* variant id -> what GenerateAndroidBuildActions recorded
    rerun,       \* variant id -> the result of a repeated classification and resolution
    nreruns,     \* how many repeated resolutions have run
    panicked     \* the process has panicked

vars == <<mods, pc, classified, edges, missingDeps, errs, built, rerun, nreruns, panicked>>

(***************************************************************************)
(* Bounds of the model.                                                    *)
(***************************************************************************)
MaxLen == 3
MaxReruns == 1
MaxSrcs == 2

(***************************************************************************)
(* The mutators of the package, in the order init registers them.  The    *)
(* engine runs a mutator on every module before it runs the next one, and *)
(* generates build actions after the last.                                 *)
(***************************************************************************)
\* The registration order with the sanitizer mutators ahead of the others.
mutatorsSanitizerFirst ==
    <<"asan_deps", "asan", "tsan_deps", "tsan", "link", "test_per_src", "deps">>

mutators == <<"link", "test_per_src", "deps", "asan_deps", "asan", "tsan_deps", "tsan">>

MutatorIndex(name) == CHOOSE i \in 1..Len(mutators) : mutators[i] = name

\* How many mutators have run on a variant whose position is p.
PcIndex(p) ==
    IF p = "new" THEN 0
    ELSE IF p = "built" THEN Len(mutators) + 1
    ELSE MutatorIndex(p)

(***************************************************************************)
(* Small helpers of the package.                                           *)
(***************************************************************************)
inList(s, list) == \E i \in 1..Len(list) : list[i] = s

filterList(list, filter) ==
    [remainder |-> SelectSeq(list, LAMBDA x : ~inList(x, filter)),
     filtered  |-> SelectSeq(list, LAMBDA x : inList(x, filter))]

Range(s) == {s[i] : i \in 1..Len(s)}

(***************************************************************************)
(* lastUniqueElements: the in-place loops of the source, on 0-based        *)
(* indices i, j (list[k] of the source is list[k+1] here).                 *)
(***************************************************************************)
RECURSIVE lueInner(_, _, _, _, _)
lueInner(list, i, j, skip, totalSkip) ==
    IF j < totalSkip
    THEN [list |-> list, skip |-> skip]
    ELSE IF list[i + 1] = list[j + 1]
         THEN lueInner(list, i, j - 1, skip + 1, totalSkip)
         ELSE lueInner([list EXCEPT ![j + skip + 1] = list[j + 1]], i, j - 1, skip, totalSkip)

RECURSIVE lueOuter(_, _, _)
lueOuter(list, i, totalSkip) ==
    IF i < totalSkip
    THEN SubSeq(list, totalSkip + 1, Len(list))
    ELSE LET r == lueInner(list, i, i - 1, 0, totalSkip)
         IN  lueOuter(r.list, i - 1, totalSkip + r.skip)

\* A variant that keeps the first copy of each element instead of the last.
RECURSIVE firstUniqueElements(_)
firstUniqueElements(list) ==
    IF list = <<>> THEN <<>>
    ELSE LET rest == firstUniqueElements(SubSeq(list, 1, Len(list) - 1))
             x    == list[Len(list)]
         IN  IF inList(x, rest) THEN rest ELSE Append(rest, x)

lastUniqueElements(list) == lueOuter(list, Len(list) - 1, 0)

(***************************************************************************)
(* Module context queries.                                                 *)
(***************************************************************************)
Device(m) == m.os = "android"
Host(m) == m.os # "android"

sdk(m) == IF Device(m) THEN m.Sdk_version # "" ELSE FALSE
sdkVersion(m) == IF Device(m) THEN m.Sdk_version ELSE ""

\* baseLinker.static() and baseLinker.staticBinary()
static(m) == m.VariantIsStatic
staticBinary(m) == m.VariantIsStaticBinary

IsBaseLinker(m) ==
    m.kind \in {"library", "binary", "test", "toolchain_library", "ndk_prebuilt_library",
                "ndk_prebuilt_stl"}

buildStatic(m) ==
    CASE m.kind \in {"library", "ndk_prebuilt_library", "ndk_prebuilt_stl"} -> m.BuildStatic
      [] m.kind \in {"binary", "test"} -> staticBinary(m)
      [] m.kind = "toolchain_library" -> TRUE
      [] OTHER -> FALSE

buildShared(m) ==
    CASE m.kind \in {"library", "ndk_prebuilt_library", "ndk_prebuilt_stl"} -> m.BuildShared
      [] m.kind \in {"binary", "test"} -> ~staticBinary(m)
      [] m.kind = "toolchain_library" -> FALSE
      [] OTHER -> FALSE

\* name + "." + version, for the versions the model declares
Versioned(base, version) ==
    CASE base = "ndk_libc" /\ version = "9" -> "ndk_libc.9"
      [] base = "ndk_libm" /\ version = "9" -> "ndk_libm.9"
      [] base = "ndk_crtbegin_so" /\ version = "9" -> "ndk_crtbegin_so.9"
      [] base = "ndk_crtend_so" /\ version = "9" -> "ndk_crtend_so.9"
      [] base = "ndk_crtbegin_static" /\ version = "9" -> "ndk_crtbegin_static.9"
      [] base = "ndk_crtbegin_dynamic" /\ version = "9" -> "ndk_crtbegin_dynamic.9"
      [] base = "ndk_crtend_android" /\ version = "9" -> "ndk_crtend_android.9"

(***************************************************************************)
(* Module.deps and the deps stages of the linkers.  A stage takes and      *)
(* returns cx = [deps |-> the Deps struct, errs |-> the errors reported]. *)
(***************************************************************************)
EmptyDeps ==
    [SharedLibs |-> <<>>, LateSharedLibs |-> <<>>,
     StaticLibs |-> <<>>, LateStaticLibs |-> <<>>, WholeStaticLibs |-> <<>>,
     ReexportSharedLibHeaders |-> <<>>, ReexportStaticLibHeaders |-> <<>>,
     ObjFiles |-> <<>>, CrtBegin |-> "", CrtEnd |-> ""]

ModuleError(msg, arg) == [kind |-> "module", what |-> msg, arg |-> arg]
PropertyError(prop, arg) == [kind |-> "property", what |-> prop, arg |-> arg]

\* The names baseLinker.deps appends to the late shared libraries, as a
\* variant that does not look at the link mode.
systemSharedLibsAnyMode(m) ==
    IF Device(m)
    THEN IF m.System_shared_libs_set THEN m.System_shared_libs
         ELSE IF ~sdk(m) THEN <<"libc", "libm">> ELSE <<>>
    ELSE <<>>

\* The names baseLinker.deps appends to the late shared libraries.
systemSharedLibs(m) ==
    IF Device(m) /\ ~static(m)
    THEN IF m.System_shared_libs_set THEN m.System_shared_libs
         ELSE IF ~sdk(m) THEN <<"libc", "libm">> ELSE <<>>
    ELSE <<>>

\* Each step of the stage is an operator on the Deps struct d so far.
baseLinkerDeps(m, cx) ==
    LET declared(d) ==
            [d EXCEPT
               !.WholeStaticLibs = @ \o m.Whole_static_libs,
               !.StaticLibs = @ \o m.Static_libs,
               !.SharedLibs = @ \o m.Shared_libs,
               !.ReexportStaticLibHeaders = @ \o m.Export_static_lib_headers,
               !.ReexportSharedLibHeaders = @ \o m.Export_shared_lib_headers]
        compilerRt(d) ==
            IF ~sdk(m) /\ m.name # "libcompiler_rt-extras"
            THEN [d EXCEPT !.StaticLibs = Append(@, "libcompiler_rt-extras")]
            ELSE d
        libgcc(d) ==
            IF Device(m)
            THEN [d EXCEPT !.LateStaticLibs =
                      IF ~m.No_libgcc THEN @ \o <<"libatomic", "libgcc">>
                                      ELSE Append(@, "libatomic")]
            ELSE d
        systemShared(d) == [d EXCEPT !.LateSharedLibs = @ \o systemSharedLibs(m)]
        ndk(d) ==
            IF Device(m) /\ sdk(m)
            THEN [d EXCEPT !.SharedLibs = @ \o
                      <<Versioned("ndk_libc", sdkVersion(m)),
                        Versioned("ndk_libm", sdkVersion(m))>>]
            ELSE d
    IN  [cx EXCEPT !.deps = ndk(systemShared(libgcc(compilerRt(declared(@)))))]

libraryLinkerDeps(m, cx) ==
    LET crt(d) ==
            IF Device(m) /\ ~m.Nocrt
            THEN IF ~sdk(m)
                 THEN [d EXCEPT !.CrtBegin = "crtbegin_so",
                                !.CrtEnd = "crtend_so"]
                 ELSE [d EXCEPT
                         !.CrtBegin = Versioned("ndk_crtbegin_so", sdkVersion(m)),
                         !.CrtEnd = Versioned("ndk_crtend_so", sdkVersion(m))]
            ELSE d
        perMode(d) ==
            IF static(m)
            THEN [d EXCEPT
                    !.WholeStaticLibs = @ \o m.Static.Whole_static_libs,
                    !.StaticLibs = @ \o m.Static.Static_libs,
                    !.SharedLibs = @ \o m.Static.Shared_libs]
            ELSE [crt(d) EXCEPT
                    !.WholeStaticLibs = @ \o m.Shared.Whole_static_libs,
                    !.StaticLibs = @ \o m.Shared.Static_libs,
                    !.SharedLibs = @ \o m.Shared.Shared_libs]
    IN  [baseLinkerDeps(m, cx) EXCEPT !.deps = perMode(@)]

\* The check at the end of binaryLinker.deps, as a variant that also rejects a
\* static executable that statically links libc.
binaryLibcRejectedAlways(m, d) == inList("libc", d.StaticLibs \o d.LateStaticLibs)

\* binaryLinker.deps, the final check: "statically linking libc to dynamic executable"
binaryLibcRejected(m, d) == buildShared(m) /\ inList("libc", d.StaticLibs)

\* The move of the group libraries, as a variant that puts them behind the
\* late static libraries.
moveLateBehind(d, f) ==
    [d EXCEPT !.StaticLibs = f.remainder, !.LateStaticLibs = @ \o f.filtered]

\* deps.StaticLibs, groupLibs = filterList(...);
\* deps.LateStaticLibs = append(groupLibs, deps.LateStaticLibs...)
moveLate(d, f) ==
    [d EXCEPT !.StaticLibs = f.remainder, !.LateStaticLibs = f.filtered \o @]

binaryLinkerDeps(m, cx) ==
    LET crt(d) ==
            IF Device(m)
            THEN IF ~sdk(m)
                 THEN [d EXCEPT
                         !.CrtBegin = IF buildStatic(m) THEN "crtbegin_static"
                                                        ELSE "crtbegin_dynamic",
                         !.CrtEnd = "crtend_android"]
                 ELSE [d EXCEPT
                         !.CrtBegin = IF buildStatic(m)
                                      THEN Versioned("ndk_crtbegin_static", sdkVersion(m))
                                      ELSE Versioned("ndk_crtbegin_dynamic", sdkVersion(m)),
                         !.CrtEnd = Versioned("ndk_crtend_android", sdkVersion(m))]
            ELSE d
        stlLibs(sl) ==
            IF inList("libc++_static", sl) THEN sl \o <<"libm", "libc", "libdl">> ELSE sl
        staticExe(d) ==
            IF Device(m) /\ buildStatic(m)
            THEN moveLate(d, filterList(stlLibs(d.StaticLibs),
                                        <<"libc", "libc_nomalloc", "libcompiler_rt">>))
            ELSE d
        check(c) ==
            IF binaryLibcRejected(m, c.deps)
            THEN [c EXCEPT !.errs = Append(@,
                     ModuleError("statically linking libc to dynamic executable", "libc"))]
            ELSE c
    IN  check([baseLinkerDeps(m, cx) EXCEPT !.deps = staticExe(crt(@))])

\* testLinker.deps; the stl of every module of the model selects the default
\* case of the switch
testLinkerDeps(m, cx) ==
    LET gtest(d) ==
            IF m.Gtest
            THEN IF sdk(m) /\ Device(m)
                 THEN [d EXCEPT !.StaticLibs = @ \o <<"libgtest_main_ndk", "libgtest_ndk">>]
                 ELSE [d EXCEPT !.StaticLibs = @ \o <<"libgtest_main", "libgtest">>]
            ELSE d
    IN  binaryLinkerDeps(m, [cx EXCEPT !.deps = gtest(@)])

objectLinkerDeps(m, cx) == [cx EXCEPT !.deps.ObjFiles = @ \o m.Objs]

linkerDeps(m, cx) ==
    CASE m.kind = "library" -> libraryLinkerDeps(m, cx)
      [] m.kind = "binary" -> binaryLinkerDeps(m, cx)
      [] m.kind = "test" -> testLinkerDeps(m, cx)
      [] m.kind = "object" -> objectLinkerDeps(m, cx)
      [] OTHER -> cx   \* toolchain and NDK libraries can't have any dependencies

\* The names accumulated by the stages, before Module.deps deduplicates them.
accumulatedDeps(m) == linkerDeps(m, [deps |-> EmptyDeps, errs |-> <<>>])

\* The re-export checks of Module.deps, as a variant that looks each name up in
\* the declared property instead of the final bucket.
reexportErrsDeclared(m, d) ==
    SelectSeq([i \in 1..Len(d.ReexportSharedLibHeaders) |->
                  PropertyError("export_shared_lib_headers", d.ReexportSharedLibHeaders[i])],
              LAMBDA e : ~inList(e.arg, m.Shared_libs))
    \o
    SelectSeq([i \in 1..Len(d.ReexportStaticLibHeaders) |->
                  PropertyError("export_static_lib_headers", d.ReexportStaticLibHeaders[i])],
              LAMBDA e : ~inList(e.arg, m.Static_libs))

\* The two loops of Module.deps over the re-export lists.
reexportErrs(m, d) ==
    SelectSeq([i \in 1..Len(d.ReexportSharedLibHeaders) |->
                  PropertyError("export_shared_lib_headers", d.ReexportSharedLibHeaders[i])],
              LAMBDA e : ~inList(e.arg, d.SharedLibs))
    \o
    SelectSeq([i \in 1..Len(d.ReexportStaticLibHeaders) |->
                  PropertyError("export_static_lib_headers", d.ReexportStaticLibHeaders[i])],
              LAMBDA e : ~inList(e.arg, d.StaticLibs))

moduleDeps(m) ==
    LET unique(d) ==
            [d EXCEPT
               !.WholeStaticLibs = lastUniqueElements(@),
               !.StaticLibs = lastUniqueElements(@),
               !.LateStaticLibs = lastUniqueElements(@),
               !.SharedLibs = lastUniqueElements(@),
               !.LateSharedLibs = lastUniqueElements(@)]
        checked(c) == [c EXCEPT !.errs = @ \o reexportErrs(m, c.deps)]
    IN  checked([accumulatedDeps(m) EXCEPT !.deps = unique(@)])

(***************************************************************************)
(* Variants.  A variant id is <<module name, link variation>>; the         *)
(* variation is "" until linkageMutator has split the module.              *)
(***************************************************************************)
NoPerMode ==
    [Enabled |-> TRUE, Srcs |-> <<>>, Cflags |-> <<>>,
     Whole_static_libs |-> <<>>, Static_libs |-> <<>>, Shared_libs |-> <<>>]

\* The zero value of the property structs of a module.
BaseProps ==
    [name |-> "", kind |-> "library", os |-> "android", arch |-> "arm", enabled |-> TRUE,
     Sdk_version |-> "", Clang |-> FALSE,
     Srcs |-> <<>>, Cflags |-> <<>>, Cppflags |-> <<>>, Conlyflags |-> <<>>,
     Release_cflags |-> <<>>, Clang_cflags |-> <<>>, Ldflags |-> <<>>,
     Instruction_set |-> "",
     Whole_static_libs |-> <<>>, Static_libs |-> <<>>, Shared_libs |-> <<>>,
     System_shared_libs_set |-> FALSE, System_shared_libs |-> <<>>,
     Export_static_lib_headers |-> <<>>, Export_shared_lib_headers |-> <<>>,
     No_libgcc |-> FALSE, Nocrt |-> FALSE, Objs |-> <<>>,
     Static |-> NoPerMode, Shared |-> NoPerMode,
     Export_include_flag |-> "",
     Version_script |-> "", Unexported_symbols_list |-> "",
     Force_symbols_not_weak_list |-> "", Force_symbols_weak_list |-> "",
     Static_executable |-> FALSE, Stem |-> "", Prefix_symbols |-> "",
     Strip_none |-> FALSE, EmbeddedInMake |-> FALSE,
     Test_per_src |-> FALSE, Gtest |-> FALSE,
     BuildStatic |-> FALSE, BuildShared |-> FALSE,
     VariantIsStatic |-> FALSE, VariantIsStaticBinary |-> FALSE]

\* dependencyTag values
Tag(name, library, reexport) == [name |-> name, library |-> library, reexportFlags |-> reexport]
sharedDepTag == Tag("shared", TRUE, FALSE)
sharedExportDepTag == Tag("shared", TRUE, TRUE)
lateSharedDepTag == Tag("late shared", TRUE, FALSE)
staticDepTag == Tag("static", TRUE, FALSE)
staticExportDepTag == Tag("static", TRUE, TRUE)
lateStaticDepTag == Tag("late static", TRUE, FALSE)
wholeStaticDepTag == Tag("whole static", TRUE, TRUE)
objDepTag == Tag("obj", FALSE, FALSE)
crtBeginDepTag == Tag("crtbegin", FALSE, FALSE)
crtEndDepTag == Tag("crtend", FALSE, FALSE)
reuseObjTag == Tag("reuse objects", FALSE, FALSE)

Edge(to, tag) == [to |-> to, tag |-> tag]

NoPathDeps ==
    [SharedLibs |-> <<>>, LateSharedLibs |-> <<>>,
     StaticLibs |-> <<>>, LateStaticLibs |-> <<>>, WholeStaticLibs |-> <<>>,
     ObjFiles |-> <<>>, WholeStaticLibObjFiles |-> <<>>,
     Cflags |-> <<>>, ReexportedCflags |-> <<>>,
     CrtBegin |-> <<>>, CrtEnd |-> <<>>]

\* What a variant has recorded before GenerateAndroidBuildActions ran on it.
\* An OptionalPath is <<>> (invalid) or <<path>>.
NotBuilt ==
    [outputFile |-> <<>>, objFiles |-> <<>>, reuseObjFiles |-> <<>>,
     wholeStaticMissingDeps |-> <<>>, exportedFlags |-> <<>>,
     compiledSrcs |-> <<>>, pathDeps |-> NoPathDeps,
     linkedSharedLibs |-> <<>>, cflagsVar |-> <<>>, cflags |-> <<>>,
     cppflagsVar |-> <<>>, conlyFlags |-> <<>>, ldFlags |-> <<>>,
     linkAction |-> "", linkInputs |-> <<>>, linkOutput |-> <<>>, postLink |-> <<>>,
     ran |-> <<>>]

NoRerun == [ran |-> FALSE, deps |-> EmptyDeps, pathDeps |-> NoPathDeps]

(***************************************************************************)
(* linkageMutator                                                          *)
(***************************************************************************)
\* The gate of the object-reuse optimisation, as a variant that looks at the
\* per-mode source lists.
reuseGateSrcs(staticM, sharedM) ==
    Len(staticM.Static.Srcs) = 0 /\ Len(sharedM.Shared.Srcs) = 0

\* The gate of the object-reuse optimisation in linkageMutator.
reuseGate(staticM, sharedM) ==
    Len(staticM.Static.Cflags) = 0 /\ Len(sharedM.Shared.Cflags) = 0

\* sharedCompiler.baseCompiler.Properties.Srcs = nil
reusedSrcs(srcs) == <<>>

\* setStatic, as a variant that ignores its argument
setStaticStuck(m, isStatic) == [m EXCEPT !.VariantIsStatic = TRUE]

setStatic(m, isStatic) == [m EXCEPT !.VariantIsStatic = isStatic]

\* CreateLocalVariations: the module is replaced by one clone per variation.
\* val maps each variation to the clone's value.
Split(f, v, val) ==
    [x \in (DOMAIN f \ {v}) \cup {<<v[1], n>> : n \in DOMAIN val} |->
        IF x \in DOMAIN f \ {v} THEN f[x] ELSE val[x[2]]]

LinkageMutatorSplit(v, variations) ==
    LET m == mods[v]
        staticM == setStatic(m, TRUE)
        shared0 == setStatic(m, FALSE)
        reuse == /\ variations = {"static", "shared"}
                 /\ m.kind = "library"
                 /\ reuseGate(staticM, shared0)
        sharedM == IF reuse THEN [shared0 EXCEPT !.Srcs = reusedSrcs(@)] ELSE shared0
    IN  /\ mods' = Split(mods, v, [n \in variations |->
                                       IF n = "static" THEN staticM ELSE sharedM])
        /\ pc' = Split(pc, v, [n \in variations |-> "link"])
        /\ classified' = Split(classified, v, [n \in variations |-> classified[v]])
        /\ edges' = Split(edges, v, [n \in variations |->
                                       IF reuse /\ n = "shared"
                                       THEN edges[v] \o <<Edge(<<v[1], "static">>, reuseObjTag)>>
                                       ELSE edges[v]])
        /\ missingDeps' = Split(missingDeps, v, [n \in variations |-> missingDeps[v]])
        /\ errs' = Split(errs, v, [n \in variations |-> errs[v]])
        /\ built' = Split(built, v, [n \in variations |-> built[v]])
        /\ rerun' = Split(rerun, v, [n \in variations |-> rerun[v]])
        /\ UNCHANGED <<nreruns, panicked>>

\* The engine calls the mutator name on v: the mutators before it have run
\* on every module, and name has not run on v.
MayRun(name, v) ==
    /\ ~panicked
    /\ v \in DOMAIN mods
    /\ PcIndex(pc[v]) = MutatorIndex(name) - 1
    /\ \A x \in DOMAIN mods : PcIndex(pc[x]) >= MutatorIndex(name) - 1

LinkageMutator(v) ==
    /\ MayRun("link", v)
    /\ LET m == mods[v] IN
       IF ~IsBaseLinker(m)
       THEN /\ pc' = [pc EXCEPT ![v] = "link"]
            /\ UNCHANGED <<mods, classified, edges, missingDeps, errs, built, rerun,
                           nreruns, panicked>>
       ELSE IF buildStatic(m) /\ buildShared(m)
            THEN LinkageMutatorSplit(v, {"static", "shared"})
            ELSE IF buildStatic(m)
                 THEN LinkageMutatorSplit(v, {"static"})
                 ELSE IF buildShared(m)
                      THEN LinkageMutatorSplit(v, {"shared"})
                      ELSE \* panic(fmt.Errorf("library %q not static or shared", ...))
                           /\ panicked' = TRUE
                           /\ UNCHANGED <<mods, pc, classified, edges, missingDeps, errs,
                                          built, rerun, nreruns>>

(***************************************************************************)
(* testPerSrcMutator.  A sibling's id is the id of the test with the       *)
(* sibling's variation name and its index in the list the engine returns.  *)
(***************************************************************************)
\* strings.TrimSuffix(filepath.Base(src), filepath.Ext(src)), for the sources
\* the model declares
TrimExtBase(src) ==
    CASE src = "a.c" -> "a"
      [] src = "b.c" -> "b"
      [] src = "a.cpp" -> "a"
      [] src = "dir/a.c" -> "a"
      [] src = "dir/c.c" -> "c"

testNames(srcs) == [i \in 1..Len(srcs) |-> TrimExtBase(srcs[i])]

\* CreateLocalVariations(names...): one clone per element of names, in order.
\* val maps each index to the clone's value.
SplitList(f, v, names, val) ==
    [x \in (DOMAIN f \ {v}) \cup {Append(Append(v, names[i]), i) : i \in 1..Len(names)} |->
        IF x \in DOMAIN f \ {v} THEN f[x] ELSE val[x[Len(x)]]]

\* tests[i].compiler.Properties.Srcs = []string{src}
perSrc(srcs, i) == <<srcs[i]>>

TestPerSrcSplit(v, names) ==
    LET m == mods[v]
        same(f) == SplitList(f, v, names, [i \in 1..Len(names) |-> f[v]])
    IN  /\ mods' = SplitList(mods, v, names,
                             [i \in 1..Len(names) |->
                                 [m EXCEPT !.Srcs = perSrc(m.Srcs, i), !.Stem = names[i]]])
        /\ pc' = SplitList(pc, v, names, [i \in 1..Len(names) |-> "test_per_src"])
        /\ classified' = same(classified)
        /\ edges' = same(edges)
        /\ missingDeps' = same(missingDeps)
        /\ errs' = same(errs)
        /\ built' = same(built)
        /\ rerun' = same(rerun)
        /\ UNCHANGED <<nreruns, panicked>>

TestPerSrcMutator(v) ==
    /\ MayRun("test_per_src", v)
    /\ IF mods[v].kind = "test" /\ mods[v].Test_per_src
       THEN TestPerSrcSplit(v, testNames(mods[v].Srcs))
       ELSE /\ pc' = [pc EXCEPT ![v] = "test_per_src"]
            /\ UNCHANGED <<mods, classified, edges, missingDeps, errs, built, rerun,
                           nreruns, panicked>>

(***************************************************************************)
(* The sanitizer mutators (cc/sanitize.go).  No module of the model        *)
(* declares a sanitizer, so the mutators leave every module as it is.      *)
(***************************************************************************)
SanitizerDepsMutator(t, v) ==
    /\ MayRun(IF t = "asan" THEN "asan_deps" ELSE "tsan_deps", v)
    /\ pc' = [pc EXCEPT ![v] = IF t = "asan" THEN "asan_deps" ELSE "tsan_deps"]
    /\ UNCHANGED <<mods, classified, edges, missingDeps, errs, built, rerun, nreruns, panicked>>

SanitizerMutator(t, v) ==
    /\ MayRun(t, v)
    /\ pc' = [pc EXCEPT ![v] = t]
    /\ UNCHANGED <<mods, classified, edges, missingDeps, errs, built, rerun, nreruns, panicked>>

(***************************************************************************)
(* The build-graph engine's dependency calls, as Module.depsMutator uses   *)
(* them.  st = [edges, missing, errs] of the calling variant; M is the     *)
(* module table.  A name no module has is recorded as a missing            *)
(* dependency (the engine runs with missing dependencies allowed).         *)
(***************************************************************************)
MissingDep(n) == [name |-> n, requiredBy |-> <<>>]

RECURSIVE AddVariationDependencies(_, _, _, _, _)
AddVariationDependencies(st, M, variation, tag, names) ==
    IF names = <<>> THEN st
    ELSE LET n == Head(names)
             st1 == IF ~\E x \in DOMAIN M : x[1] = n
                    THEN [st EXCEPT !.missing = Append(@, MissingDep(n))]
                    ELSE IF <<n, variation>> \in DOMAIN M
                         THEN [st EXCEPT !.edges = Append(@, Edge(<<n, variation>>, tag))]
                         ELSE [st EXCEPT !.errs = Append(@, ModuleError("missing variant", n))]
         IN  AddVariationDependencies(st1, M, variation, tag, Tail(names))

RECURSIVE AddDependency(_, _, _, _)
AddDependency(st, M, tag, names) ==
    IF names = <<>> THEN st
    ELSE LET n == Head(names)
             cands == {x \in DOMAIN M : x[1] = n}
             st1 == IF cands = {}
                    THEN [st EXCEPT !.missing = Append(@, MissingDep(n))]
                    ELSE IF Cardinality(cands) = 1
                         THEN [st EXCEPT !.edges =
                                   Append(@, Edge(CHOOSE x \in cands : TRUE, tag))]
                         ELSE [st EXCEPT !.errs = Append(@, ModuleError("missing variant", n))]
         IN  AddDependency(st1, M, tag, Tail(names))

(***************************************************************************)
(* Module.begin and Module.depsMutator                                     *)
(***************************************************************************)
libraryLinkerBegin(m) ==
    IF static(m)
    THEN IF ~m.Static.Enabled THEN [m EXCEPT !.enabled = FALSE] ELSE m
    ELSE IF ~m.Shared.Enabled THEN [m EXCEPT !.enabled = FALSE] ELSE m

binaryLinkerBegin(m) ==
    LET isStatic == IF Host(m) /\ m.os # "linux" THEN FALSE ELSE m.Static_executable
    IN  IF isStatic
        THEN [m EXCEPT !.VariantIsStatic = TRUE, !.VariantIsStaticBinary = TRUE]
        ELSE m

moduleBegin(m) ==
    CASE m.kind = "library" -> libraryLinkerBegin(m)
      [] m.kind \in {"binary", "test"} -> binaryLinkerBegin(m)
      [] OTHER -> m

\* The tag of the edges added in one round of the static (resp. shared) loop.
staticTagFor(lib, d) ==
    IF inList(lib, d.ReexportStaticLibHeaders) THEN staticExportDepTag ELSE staticDepTag
sharedTagFor(lib, d) ==
    IF inList(lib, d.ReexportSharedLibHeaders) THEN sharedExportDepTag ELSE sharedDepTag

\* for _, lib := range deps.StaticLibs { AddVariationDependencies(static, depTag, deps.StaticLibs...) }
RECURSIVE staticLoop(_, _, _, _)
staticLoop(st, M, d, i) ==
    IF i > Len(d.StaticLibs) THEN st
    ELSE staticLoop(AddVariationDependencies(st, M, "static",
                        staticTagFor(d.StaticLibs[i], d), d.StaticLibs),
                    M, d, i + 1)

\* for _, lib := range deps.SharedLibs { AddVariationDependencies(shared, depTag, deps.SharedLibs...) }
RECURSIVE sharedLoop(_, _, _, _)
sharedLoop(st, M, d, i) ==
    IF i > Len(d.SharedLibs) THEN st
    ELSE sharedLoop(AddVariationDependencies(st, M, "shared",
                        sharedTagFor(d.SharedLibs[i], d), d.SharedLibs),
                    M, d, i + 1)

\* The variation a whole-static edge requests, as a variant that requests the
\* shared one.
wholeStaticVariationShared == "shared"

\* []blueprint.Variation{{"link", "static"}} of the whole static libraries
wholeStaticVariation == "static"

depsMutatorEdges(st0, M, d) ==
    LET s1 == AddVariationDependencies(st0, M, wholeStaticVariation, wholeStaticDepTag,
                                       d.WholeStaticLibs)
        s2 == staticLoop(s1, M, d, 1)
        s3 == AddVariationDependencies(s2, M, "static", lateStaticDepTag, d.LateStaticLibs)
        s4 == sharedLoop(s3, M, d, 1)
        s5 == AddVariationDependencies(s4, M, "shared", lateSharedDepTag, d.LateSharedLibs)
        s6 == AddDependency(s5, M, objDepTag, d.ObjFiles)
        crtBegin(s) ==
            IF d.CrtBegin # "" THEN AddDependency(s, M, crtBeginDepTag, <<d.CrtBegin>>) ELSE s
        crtEnd(s) ==
            IF d.CrtEnd # "" THEN AddDependency(s, M, crtEndDepTag, <<d.CrtEnd>>) ELSE s
    IN  crtEnd(crtBegin(s6))

DepsMutator(v) ==
    /\ MayRun("deps", v)
    /\ LET record(m1, cx, st) ==
               /\ mods' = [mods EXCEPT ![v] = m1]
               /\ classified' = [classified EXCEPT ![v] = cx.deps]
               /\ edges' = [edges EXCEPT ![v] = st.edges]
               /\ missingDeps' = [missingDeps EXCEPT ![v] = st.missing]
               /\ errs' = [errs EXCEPT ![v] = st.errs]
               /\ pc' = [pc EXCEPT ![v] = "deps"]
           addEdges(m1, cx) ==
               record(m1, cx,
                      depsMutatorEdges([edges |-> edges[v], missing |-> missingDeps[v],
                                        errs |-> errs[v] \o cx.errs], mods, cx.deps))
           classify(m1) == addEdges(m1, moduleDeps(m1))
       IN  classify(moduleBegin(mods[v]))
    /\ UNCHANGED <<built, rerun, nreruns, panicked>>

(***************************************************************************)
(* Module.depsToPaths.  The visit of one edge takes and returns            *)
(* s = [dp |-> the PathDeps, errs |-> the errors of the module context,    *)
(*      missing |-> the context's missing dependencies,                    *)
(*      bt |-> the records of all variants].                               *)
(***************************************************************************)
\* The link-type check, as a variant that also restricts host code.
linkTypeOkHostRestricted(from, to) ==
    IF from.Sdk_version = "" THEN TRUE
    ELSE IF to.kind = "toolchain_library" THEN TRUE
    ELSE IF to.kind = "ndk_prebuilt_library" THEN TRUE
    ELSE IF to.kind = "ndk_prebuilt_stl" THEN TRUE
    ELSE to.Sdk_version # ""

linkTypeOk(from, to) ==
    IF from.os # "android" THEN TRUE
    ELSE IF from.Sdk_version = "" THEN TRUE
    ELSE IF to.kind = "toolchain_library" THEN TRUE
    ELSE IF to.kind = "ndk_prebuilt_library" THEN TRUE
    ELSE IF to.kind = "ndk_prebuilt_stl" THEN TRUE
    ELSE to.Sdk_version # ""

\* The checks every edge to a cc module passes first, as a variant without the
\* check of the target's architecture.
edgeRejectionNoArchCheck(req, tgt, tgtBuilt) ==
    IF ~tgt.enabled THEN <<ModuleError("depends on disabled module", tgt.name)>>
    ELSE IF tgt.os # req.os THEN <<ModuleError("OS mismatch", tgt.name)>>
    ELSE IF tgtBuilt.outputFile = <<>> THEN <<ModuleError("missing output file", tgt.name)>>
    ELSE <<>>

\* The checks every edge to a cc module passes first: <<>> or the error reported.
edgeRejection(req, tgt, tgtBuilt) ==
    IF ~tgt.enabled THEN <<ModuleError("depends on disabled module", tgt.name)>>
    ELSE IF tgt.os # req.os THEN <<ModuleError("OS mismatch", tgt.name)>>
    ELSE IF tgt.arch # req.arch THEN <<ModuleError("Arch mismatch", tgt.name)>>
    ELSE IF tgtBuilt.outputFile = <<>> THEN <<ModuleError("missing output file", tgt.name)>>
    ELSE <<>>

\* missingDeps[i] += " (required by " + name + ")"
annotate(missing, by) ==
    [i \in 1..Len(missing) |-> [missing[i] EXCEPT !.requiredBy = Append(@, by)]]

\* cc.linker.(exportedFlagsProducer)
IsExportedFlagsProducer(m) == m.kind \in {"library", "ndk_prebuilt_library", "ndk_prebuilt_stl"}

\* The part of the visit after the rejection checks and the reuse-objects tag.
visitLinked(s2, t, tag, tgt, tb) ==
    LET out == tb.outputFile[1]
    IN
    CASE tag \in {sharedDepTag, sharedExportDepTag} ->
            [s2 EXCEPT !.dp.SharedLibs = Append(@, out)]
      [] tag = lateSharedDepTag ->
            [s2 EXCEPT !.dp.LateSharedLibs = Append(@, out)]
      [] tag \in {staticDepTag, staticExportDepTag} ->
            [s2 EXCEPT !.dp.StaticLibs = Append(@, out)]
      [] tag = lateStaticDepTag ->
            [s2 EXCEPT !.dp.LateStaticLibs = Append(@, out)]
      [] tag = wholeStaticDepTag ->
            IF tgt.kind # "library" \/ ~static(tgt)
            THEN [s2 EXCEPT !.errs = Append(@, ModuleError("not a static library", tgt.name))]
            ELSE LET annotated == annotate(tb.wholeStaticMissingDeps, tgt.name)
                 IN  [s2 EXCEPT
                        !.bt[t].wholeStaticMissingDeps = annotated,
                        !.missing = @ \o annotated,
                        !.dp.WholeStaticLibObjFiles = @ \o tb.objFiles,
                        !.dp.WholeStaticLibs = Append(@, out)]
      [] tag = objDepTag ->
            [s2 EXCEPT !.dp.ObjFiles = Append(@, out)]
      [] tag = crtBeginDepTag ->
            [s2 EXCEPT !.dp.CrtBegin = tb.outputFile]
      [] tag = crtEndDepTag ->
            [s2 EXCEPT !.dp.CrtEnd = tb.outputFile]

\* What an edge adds to ReexportedCflags, as a variant that re-exports the
\* flags of every library edge.
reexportedAlways(tag, cflags) == cflags

\* if t.reexportFlags { depPaths.ReexportedCflags = append(..., cflags...) }
reexported(tag, cflags) == IF tag.reexportFlags THEN cflags ELSE <<>>

visitDep(s, req, M, e) ==
    LET t == e.to
        tag == e.tag
        tgt == M[t]
        tb == s.bt[t]
        rejected(rej) == rej # <<>>
        exportFlags(s0) ==
            IF tag.library /\ IsExportedFlagsProducer(tgt)
            THEN [s0 EXCEPT !.dp.Cflags = @ \o tb.exportedFlags,
                            !.dp.ReexportedCflags = @ \o reexported(tag, tb.exportedFlags)]
            ELSE s0
        checkLinkType(s1) ==
            IF tag.library /\ ~linkTypeOk(req, tgt)
            THEN [s1 EXCEPT !.errs = Append(@, ModuleError("depends on non-NDK-built library", tgt.name))]
            ELSE s1
    IN
    IF rejected(edgeRejection(req, tgt, tb))
    THEN [s EXCEPT !.errs = @ \o edgeRejection(req, tgt, tb)]
    ELSE IF tag = reuseObjTag
    THEN [s EXCEPT !.dp.ObjFiles = @ \o tb.reuseObjFiles]
    ELSE visitLinked(checkLinkType(exportFlags(s)), t, tag, tgt, tb)

RECURSIVE visitDirectDeps(_, _, _, _)
visitDirectDeps(s, req, M, es) ==
    IF es = <<>> THEN s
    ELSE visitDirectDeps(visitDep(s, req, M, Head(es)), req, M, Tail(es))

\* var depPaths PathDeps, as a variant that keeps what an earlier call left
stalePathDeps(prev) == prev

\* var depPaths PathDeps
newPathDeps(prev) == NoPathDeps

depsToPaths(v, M, bt, missing, es, prev) ==
    visitDirectDeps([dp |-> newPathDeps(prev), errs |-> <<>>, missing |-> missing, bt |-> bt],
                    M[v], M, es)

(***************************************************************************)
(* The flags stages.  A stage takes and returns                            *)
(* cx = [flags |-> the Flags struct, errs |-> the errors reported].  The   *)
(* C, C++, C-only and linker flag lists are threaded; a flag whose text    *)
(* the toolchain supplies is written as a reference ${...}.  Every module  *)
(* is built from a directory outside external/ and with the default        *)
(* compiler flags.                                                         *)
(***************************************************************************)
illegalFlags == <<"-w">>

\* The flags clangFilterUnknownCflags removes (cc/clang.go), for the flags of
\* the model.
clangUnknownCflags == <<"-finline-limit=64", "-fno-tree-sra">>

clangFilterUnknownCflags(list) == filterList(list, clangUnknownCflags).remainder

\* toolchain.InstructionSetFlags(instructionSet) returns no error
InstructionSetKnown(m) == m.Instruction_set \in {"", "arm", "thumb"}

\* The Flags struct GenerateAndroidBuildActions starts from.
NoFlags(m) ==
    [CFlags |-> <<>>, CppFlags |-> <<>>, ConlyFlags |-> <<>>, LdFlags |-> <<>>,
     Clang |-> m.Clang, DynamicLinker |-> ""]

baseCompilerFlags(m, cx) ==
    LET declared(f) ==
            [f EXCEPT !.CFlags = @ \o m.Cflags,
                      !.CppFlags = @ \o m.Cppflags,
                      !.ConlyFlags = @ \o m.Conlyflags]
        release(f) == [f EXCEPT !.CFlags = @ \o m.Release_cflags]
        clang(f) ==
            IF f.Clang
            THEN [f EXCEPT
                    !.CFlags = (clangFilterUnknownCflags(@) \o m.Clang_cflags)
                               \o <<"-target ${ClangTriple}", "-B${GccRoot}">>,
                    !.CppFlags = clangFilterUnknownCflags(@),
                    !.ConlyFlags = clangFilterUnknownCflags(@),
                    !.LdFlags = clangFilterUnknownCflags(@)
                                \o <<"-target ${ClangTriple}", "-B${GccRoot}">>]
            ELSE f
        defaults(f) ==
            [f EXCEPT
               !.CppFlags =
                   ((@ \o (IF f.Clang THEN <<"${commonClangGlobalCppflags}">>
                                      ELSE <<"${commonGlobalCppflags}">>))
                    \o (IF Device(m) THEN <<"-fno-rtti">> ELSE <<>>))
                   \o (IF f.Clang THEN <<"${ClangCppflags}">> ELSE <<"${Cppflags}">>),
               !.ConlyFlags = IF f.Clang THEN Append(@, "${clangExtraConlyflags}") ELSE @]
        std(f) ==
            IF ~sdk(m)
            THEN [f EXCEPT !.CppFlags = Append(@, IF Host(m) /\ ~f.Clang THEN "-std=gnu++11"
                                                                       ELSE "-std=gnu++14")]
            ELSE f
        strict(f) == [f EXCEPT !.CFlags = Append(@, "-DANDROID_STRICT")]
        instructionSet(c) ==
            IF ~InstructionSetKnown(m)
            THEN [c EXCEPT !.errs = Append(@, ModuleError("unknown instruction set",
                                                          m.Instruction_set))]
            ELSE c
    IN  instructionSet([cx EXCEPT !.flags = strict(std(defaults(clang(release(declared(@))))))])

\* libraryCompiler.flags as a variant that keeps the first copy of every C
\* flag only.
libraryCompilerFlagsUnique(m, cx) ==
    LET pic(f) == IF m.os # "windows" THEN [f EXCEPT !.CFlags = Append(@, "-fPIC")] ELSE f
        perMode(f) ==
            IF static(m) THEN [f EXCEPT !.CFlags = firstUniqueElements(@ \o m.Static.Cflags)]
                         ELSE [f EXCEPT !.CFlags = firstUniqueElements(@ \o m.Shared.Cflags)]
    IN  [baseCompilerFlags(m, cx) EXCEPT !.flags = perMode(pic(@))]

libraryCompilerFlags(m, cx) ==
    LET pic(f) == IF m.os # "windows" THEN [f EXCEPT !.CFlags = Append(@, "-fPIC")] ELSE f
        perMode(f) ==
            IF static(m) THEN [f EXCEPT !.CFlags = @ \o m.Static.Cflags]
                         ELSE [f EXCEPT !.CFlags = @ \o m.Shared.Cflags]
    IN  [baseCompilerFlags(m, cx) EXCEPT !.flags = perMode(pic(@))]

baseLinkerFlags(m, cx) ==
    LET defaults(f) ==
            [f EXCEPT !.LdFlags =
                (@ \o (IF Device(m) THEN <<"-Wl,--no-undefined">> ELSE <<>>))
                \o (IF f.Clang THEN <<"${ClangLdflags}">> ELSE <<"${Ldflags}">>)]
        declared(f) == [f EXCEPT !.LdFlags = @ \o m.Ldflags]
        rpath(f) ==
            IF Host(m) /\ ~static(m) /\ m.kind = "test"
            THEN [f EXCEPT !.LdFlags =
                     Append(@, IF m.os = "darwin" THEN "-Wl,-rpath,@loader_path/../../lib"
                                                  ELSE "-Wl,-rpath,$ORIGIN/../../lib")]
            ELSE f
        toolchain(f) ==
            [f EXCEPT !.LdFlags = Append(@, IF f.Clang THEN "${ToolchainClangLdflags}"
                                                       ELSE "${ToolchainLdflags}")]
    IN  [cx EXCEPT !.flags = toolchain(rpath(declared(defaults(@))))]

libraryLinkerFlags(m, cx) ==
    LET device(f) ==
            IF Device(m) THEN [f EXCEPT !.LdFlags = @ \o <<"-nostdlib", "-Wl,--gc-sections">>]
            ELSE f
        soname(f) ==
            IF m.os = "darwin"
            THEN [f EXCEPT !.LdFlags = @ \o <<"-dynamiclib", "-single_module",
                                              "-install_name @rpath/${libName}">>]
            ELSE [f EXCEPT !.LdFlags = @ \o <<IF f.Clang \/ Host(m) THEN "-shared"
                                                                    ELSE "-Wl,-shared",
                                              "-Wl,-soname,${libName}">>]
        shared(f) == IF ~static(m) THEN soname(device(f)) ELSE f
    IN  [baseLinkerFlags(m, cx) EXCEPT !.flags = shared(@)]

objectLinkerFlags(m, cx) ==
    [cx EXCEPT !.flags.LdFlags = Append(@, IF cx.flags.Clang THEN "${ToolchainClangLdflags}"
                                                             ELSE "${ToolchainLdflags}")]

binaryLinkerFlags(m, cx) ==
    LET hostPie(f) ==
            IF Host(m) /\ ~staticBinary(m)
            THEN [f EXCEPT !.LdFlags =
                     IF m.os = "windows" THEN @ \o <<"-pie", "-Wl,-e_mainCRTStartup">>
                                         ELSE Append(@, "-pie")]
            ELSE f
        pie(f) == IF m.os # "windows" THEN [f EXCEPT !.CFlags = Append(@, "-fpie")] ELSE f
        deviceStatic(f) ==
            [f EXCEPT !.LdFlags =
                (IF ~inList("-shared", @) THEN Append(@, "-static") ELSE @)
                \o <<"-nostdlib", "-Bstatic", "-Wl,--gc-sections">>]
        deviceDynamic(f) ==
            [f EXCEPT
               !.DynamicLinker = IF @ = "" THEN "/system/bin/linker" ELSE @,
               !.LdFlags = @ \o <<"-pie", "-nostdlib", "-Bdynamic", "-Wl,--gc-sections",
                                  "-Wl,-z,nocopyreloc">>]
        host(f) ==
            [f EXCEPT !.LdFlags =
                (@ \o (IF staticBinary(m) THEN <<"-static">> ELSE <<>>))
                \o (IF m.os = "darwin" THEN <<"-Wl,-headerpad_max_install_names">> ELSE <<>>)]
        linkage(f) ==
            IF Device(m)
            THEN IF buildStatic(m) THEN deviceStatic(f) ELSE deviceDynamic(f)
            ELSE host(f)
    IN  [baseLinkerFlags(m, cx) EXCEPT !.flags = linkage(pie(hostPie(@)))]

testLinkerFlags(m, cx) ==
    LET os(f) ==
            IF Host(m)
            THEN CASE m.os = "windows" ->
                        [f EXCEPT !.CFlags = @ \o <<"-O0", "-g", "-DGTEST_OS_WINDOWS">>]
                   [] m.os = "linux" ->
                        [f EXCEPT !.CFlags = @ \o <<"-O0", "-g", "-DGTEST_OS_LINUX">>,
                                  !.LdFlags = Append(@, "-lpthread")]
                   [] m.os = "darwin" ->
                        [f EXCEPT !.CFlags = @ \o <<"-O0", "-g", "-DGTEST_OS_MAC">>,
                                  !.LdFlags = Append(@, "-lpthread")]
            ELSE [f EXCEPT !.CFlags = Append(@, "-DGTEST_OS_LINUX_ANDROID")]
        gtest(f) ==
            IF ~m.Gtest THEN f
            ELSE os([f EXCEPT !.CFlags = Append(@, "-DGTEST_HAS_STD_STRING")])
    IN  [binaryLinkerFlags(m, cx) EXCEPT !.flags = gtest(@)]

\* c.compiler != nil: the NDK prebuilts have no compiler
HasCompiler(m) ==
    m.kind \notin {"ndk_prebuilt_library", "ndk_prebuilt_stl", "ndk_prebuilt_object"}

compilerFlags(m, cx) ==
    IF m.kind = "library" THEN libraryCompilerFlags(m, cx)
    ELSE IF HasCompiler(m) THEN baseCompilerFlags(m, cx)
    ELSE cx

linkerFlags(m, cx) ==
    CASE m.kind \in {"library", "ndk_prebuilt_library", "ndk_prebuilt_stl"} ->
            libraryLinkerFlags(m, cx)
      [] m.kind = "binary" -> binaryLinkerFlags(m, cx)
      [] m.kind = "test" -> testLinkerFlags(m, cx)
      [] m.kind \in {"object", "ndk_prebuilt_object"} -> objectLinkerFlags(m, cx)
      [] m.kind = "toolchain_library" -> baseLinkerFlags(m, cx)

\* stl.flags (cc/stl.go) for a module that selects no C++ standard library
stlFlags(m, cx) ==
    IF Host(m) THEN [cx EXCEPT !.flags.CppFlags = Append(@, "-nostdinc++")] ELSE cx

\* sanitize.flags (cc/sanitize.go) for a module without sanitizers
sanitizeFlags(m, cx) == cx

\* The stages in the order linker, compiler, stl, sanitize.
moduleFlagsLinkerFirst(m) ==
    sanitizeFlags(m, stlFlags(m, compilerFlags(m, linkerFlags(m,
        [flags |-> NoFlags(m), errs |-> <<>>]))))

\* The flags stages of GenerateAndroidBuildActions; c.features is empty.
moduleFlags(m) ==
    sanitizeFlags(m, stlFlags(m, linkerFlags(m, compilerFlags(m,
        [flags |-> NoFlags(m), errs |-> <<>>]))))

\* The strip of the illegal flags, as a variant that leaves the C++ and C-only
\* lists as they are.
stripIllegalCFlagsOnly(f) ==
    [f EXCEPT !.CFlags = filterList(@, illegalFlags).remainder]

\* flags.CFlags, _ = filterList(flags.CFlags, illegalFlags), and the same for
\* CppFlags and ConlyFlags
stripIllegalFlags(f) ==
    [f EXCEPT !.CFlags = filterList(@, illegalFlags).remainder,
              !.CppFlags = filterList(@, illegalFlags).remainder,
              !.ConlyFlags = filterList(@, illegalFlags).remainder]

(***************************************************************************)
(* The compilers.  An object file is <<module, variation, subdir, source>>.*)
(***************************************************************************)
compileObjs(v, subdir, srcs) == [i \in 1..Len(srcs) |-> <<v[1], v[2], subdir, srcs[i]>>]

baseCompilerCompile(m, v) == compileObjs(v, "", m.Srcs)

\* libraryCompiler.compile: [objFiles, reuseObjFiles]
libraryCompilerCompile(m, v) ==
    LET common == baseCompilerCompile(m, v)
    IN  [reuseObjFiles |-> common,
         objFiles |-> IF static(m)
                      THEN common \o compileObjs(v, "static", m.Static.Srcs)
                      ELSE common \o compileObjs(v, "shared", m.Shared.Srcs)]

moduleCompile(m, v) ==
    IF m.kind = "library" THEN libraryCompilerCompile(m, v)
    ELSE IF HasCompiler(m) THEN [reuseObjFiles |-> <<>>, objFiles |-> baseCompilerCompile(m, v)]
    ELSE [reuseObjFiles |-> <<>>, objFiles |-> <<>>]

(***************************************************************************)
(* The linkers.  An output file is <<module, variation, file name>>,       *)
(* with the extension for the file name of a library or an object.  A      *)
(* linker takes the variant's record b and returns it with what the link   *)
(* step recorded, and the errors it reported.  linkAction and linkInputs   *)
(* are the transform the step created and its object inputs; for a shared  *)
(* library and a binary, linkOutput is the file the transform writes and   *)
(* postLink the transforms created for that file, in the order the step    *)
(* creates them.                                                           *)
(***************************************************************************)
\* stripper.needsStrip; EmbeddedInMake is the build's configuration
needsStrip(m) == ~m.EmbeddedInMake /\ ~m.Strip_none

Transform(rule, in, out) == [rule |-> rule, in |-> in, out |-> out]

\* stripper.strip(ctx, in, out, flags)
stripperStrip(m, in, out) ==
    Transform(IF m.os = "darwin" THEN "TransformDarwinStrip" ELSE "TransformStrip", in, out)

\* The strip and prefix-symbols part of binaryLinker.link, as a variant that
\* strips the link output and prefixes the symbols of the stripped file.
binaryPostLinkStripFirst(m, v, fileName) ==
    LET final == <<v[1], v[2], fileName>>
        unstripped == <<v[1], v[2], "unstripped", fileName>>
        unprefixed == <<v[1], v[2], "unprefixed", fileName>>
    IN  IF needsStrip(m) /\ m.Prefix_symbols # ""
        THEN [outputFile |-> unstripped,
              transforms |-> <<stripperStrip(m, unstripped, unprefixed),
                               Transform("TransformBinaryPrefixSymbols", unprefixed, final)>>]
        ELSE IF needsStrip(m)
        THEN [outputFile |-> unstripped, transforms |-> <<stripperStrip(m, unstripped, final)>>]
        ELSE IF m.Prefix_symbols # ""
        THEN [outputFile |-> unprefixed,
              transforms |-> <<Transform("TransformBinaryPrefixSymbols", unprefixed, final)>>]
        ELSE [outputFile |-> final, transforms |-> <<>>]

\* The strip and prefix-symbols part of binaryLinker.link: the file the link
\* transform has to write, and the transforms created before it.
binaryPostLink(m, v, fileName) ==
    LET strip(p) ==
            IF needsStrip(m)
            THEN [outputFile |-> <<v[1], v[2], "unstripped", fileName>>,
                  transforms |-> Append(p.transforms,
                      stripperStrip(m, <<v[1], v[2], "unstripped", fileName>>, p.outputFile))]
            ELSE p
        prefix(p) ==
            IF m.Prefix_symbols # ""
            THEN [outputFile |-> <<v[1], v[2], "unprefixed", fileName>>,
                  transforms |-> Append(p.transforms,
                      Transform("TransformBinaryPrefixSymbols",
                                <<v[1], v[2], "unprefixed", fileName>>, p.outputFile))]
            ELSE p
    IN  prefix(strip([outputFile |-> <<v[1], v[2], fileName>>, transforms |-> <<>>]))

\* The linker flag of an export-control file, for the files of the model.
ExportControlFlag(prop, path) ==
    CASE prop = "version_script" /\ path = "lib.map" -> "-Wl,--version-script,lib.map"
      [] prop = "unexported_symbols_list" /\ path = "unexported.txt" ->
            "-Wl,-unexported_symbols_list,unexported.txt"
      [] prop = "force_symbols_not_weak_list" /\ path = "notweak.txt" ->
            "-Wl,-force_symbols_not_weak_list,notweak.txt"
      [] prop = "force_symbols_weak_list" /\ path = "weak.txt" ->
            "-Wl,-force_symbols_weak_list,weak.txt"

\* The symbol lists of a library: <<property, path>>, in the order linkShared
\* looks at them.
SymbolLists(m) ==
    << <<"unexported_symbols_list", m.Unexported_symbols_list>>,
       <<"force_symbols_not_weak_list", m.Force_symbols_not_weak_list>>,
       <<"force_symbols_weak_list", m.Force_symbols_weak_list>> >>

\* The export-control part of linkShared, as a variant that skips a property
\* of the other platform without an error.
exportControlSilent(m, c) ==
    LET lists == SelectSeq(SymbolLists(m), LAMBDA p : p[2] # "")
    IN  IF m.os # "darwin"
        THEN IF m.Version_script # ""
             THEN [c EXCEPT !.ldFlags =
                      Append(@, ExportControlFlag("version_script", m.Version_script))]
             ELSE c
        ELSE [c EXCEPT !.ldFlags =
                 @ \o [i \in 1..Len(lists) |-> ExportControlFlag(lists[i][1], lists[i][2])]]

\* The export-control part of linkShared: c = [ldFlags, errs].
exportControl(m, c) ==
    LET lists == SelectSeq(SymbolLists(m), LAMBDA p : p[2] # "")
    IN  IF m.os # "darwin"
        THEN [c EXCEPT
                !.ldFlags = IF m.Version_script # ""
                            THEN Append(@, ExportControlFlag("version_script", m.Version_script))
                            ELSE @,
                !.errs = @ \o [i \in 1..Len(lists) |->
                                  PropertyError(lists[i][1], "Only supported on Darwin")]]
        ELSE [c EXCEPT
                !.errs = IF m.Version_script # ""
                         THEN Append(@, PropertyError("version_script", "Not supported on Darwin"))
                         ELSE @,
                !.ldFlags = @ \o [i \in 1..Len(lists) |->
                                     ExportControlFlag(lists[i][1], lists[i][2])]]

\* library.objFiles of linkStatic, as a variant that leaves out the objects of
\* the whole static libraries.
linkStaticOwnObjFiles(dp, objFiles) == objFiles

\* library.objFiles = WholeStaticLibObjFiles ++ objFiles
linkStaticObjFiles(dp, objFiles) == dp.WholeStaticLibObjFiles \o objFiles

libraryLinkerLinkStatic(m, v, b, flags, dp, objFiles, missing) ==
    [b |-> [b EXCEPT !.objFiles = linkStaticObjFiles(dp, objFiles),
                     !.outputFile = << <<v[1], v[2], ".a">> >>,
                     !.linkAction = "TransformObjToStaticLib",
                     !.linkInputs = linkStaticObjFiles(dp, objFiles),
                     !.ldFlags = flags.LdFlags,
                     !.wholeStaticMissingDeps = missing],
     errs |-> <<>>]

libraryLinkerLinkShared(m, v, b, flags, dp, objFiles, missing) ==
    LET done(c) ==
            [b |-> [b EXCEPT !.outputFile = << <<v[1], v[2], ".so">> >>,
                             !.linkAction = "TransformObjToDynamicBinary",
                             !.linkInputs = objFiles,
                             !.linkOutput = IF needsStrip(m)
                                            THEN << <<v[1], v[2], "unstripped", ".so">> >>
                                            ELSE << <<v[1], v[2], ".so">> >>,
                             !.postLink = IF needsStrip(m)
                                          THEN <<stripperStrip(m, <<v[1], v[2], "unstripped", ".so">>,
                                                               <<v[1], v[2], ".so">>)>>
                                          ELSE <<>>,
                             !.ldFlags = c.ldFlags,
                             !.linkedSharedLibs = dp.SharedLibs \o dp.LateSharedLibs],
             errs |-> c.errs]
    IN  done(exportControl(m, [ldFlags |-> flags.LdFlags, errs |-> <<>>]))

libraryLinkerLink(m, v, b, flags, dp, objFiles, missing) ==
    LET exported(l) ==
            [l EXCEPT !.b.exportedFlags = (@ \o <<m.Export_include_flag>>) \o dp.ReexportedCflags]
    IN  IF static(m)
        THEN exported(libraryLinkerLinkStatic(m, v, b, flags, dp, objFiles \o dp.ObjFiles, missing))
        ELSE exported(libraryLinkerLinkShared(m, v, b, flags, dp, objFiles \o dp.ObjFiles, missing))

getStem(m) == IF m.Stem # "" THEN m.Stem ELSE m.name

binaryLinkerLink(m, v, b, flags, dp, objFiles, missing) ==
    [b |-> [b EXCEPT !.outputFile = << <<v[1], v[2], getStem(m)>> >>,
                     !.linkAction = "TransformObjToDynamicBinary",
                     !.linkInputs = objFiles,
                     !.linkOutput = <<binaryPostLink(m, v, getStem(m)).outputFile>>,
                     !.postLink = binaryPostLink(m, v, getStem(m)).transforms,
                     !.ldFlags = IF flags.DynamicLinker # ""
                                 THEN Append(flags.LdFlags, " -Wl,-dynamic-linker,${DynamicLinker}")
                                 ELSE flags.LdFlags,
                     !.linkedSharedLibs = dp.SharedLibs \o dp.LateSharedLibs],
     errs |-> <<>>]

\* The link of an object, as a variant that always merges.
objectLinkerLinkAlwaysMerge(m, v, b, flags, dp, objFiles, missing) ==
    [b |-> [b EXCEPT !.outputFile = << <<v[1], v[2], ".o">> >>,
                     !.linkAction = "TransformObjsToObj",
                     !.linkInputs = objFiles \o dp.ObjFiles,
                     !.ldFlags = flags.LdFlags],
     errs |-> <<>>]

objectLinkerLink(m, v, b, flags, dp, objFiles, missing) ==
    LET linkOf(objs) ==
            IF Len(objs) = 1
            THEN [b EXCEPT !.outputFile = <<objs[1]>>]
            ELSE [b EXCEPT !.outputFile = << <<v[1], v[2], ".o">> >>,
                           !.linkAction = "TransformObjsToObj",
                           !.linkInputs = objs,
                           !.ldFlags = flags.LdFlags]
    IN  [b |-> linkOf(objFiles \o dp.ObjFiles), errs |-> <<>>]

toolchainLibraryLinkerLink(m, v, b, flags, dp, objFiles, missing) ==
    [b |-> [b EXCEPT !.outputFile = << <<v[1], v[2], ".a">> >>,
                     !.linkAction = "CopyGccLib"],
     errs |-> IF flags.Clang
              THEN <<ModuleError("toolchain_library must use GCC, not Clang", m.name)>>
              ELSE <<>>]

\* strings.HasPrefix(ctx.ModuleName(), "ndk_lib"), for the names of the model
HasNdkLibPrefix(name) ==
    name \in {"ndk_libc.9", "ndk_libm.9", "ndk_libc++_shared", "ndk_libgnustl_static",
              "ndk_libfoo_static"}

\* strings.HasPrefix(ctx.ModuleName(), "ndk_crt"), for the names of the model
HasNdkCrtPrefix(name) ==
    name \in {"ndk_crtbegin_so.9", "ndk_crtend_so.9", "ndk_crtbegin_static.9",
              "ndk_crtbegin_dynamic.9", "ndk_crtend_android.9"}

\* The link of an NDK prebuilt object, as a variant that asks for the prefix
\* of the libraries.
ndkPrebuiltObjectLinkerLinkLibPrefix(m, v, b, flags, dp, objFiles, missing) ==
    [b |-> [b EXCEPT !.outputFile = << <<v[1], v[2], ".o">> >>],
     errs |-> IF ~HasNdkLibPrefix(m.name)
              THEN <<ModuleError("NDK prebuilts must have an ndk_crt prefixed name", m.name)>>
              ELSE <<>>]

ndkPrebuiltObjectLinkerLink(m, v, b, flags, dp, objFiles, missing) ==
    [b |-> [b EXCEPT !.outputFile = << <<v[1], v[2], ".o">> >>],
     errs |-> IF ~HasNdkCrtPrefix(m.name)
              THEN <<ModuleError("NDK prebuilts must have an ndk_crt prefixed name", m.name)>>
              ELSE <<>>]

\* strings.TrimSuffix(strings.TrimSuffix(strings.TrimPrefix(name, "ndk_"),
\* "_shared"), "_static"), for the names of the model
NdkStlName(name) ==
    CASE name = "ndk_libc++_shared" -> "libc++"
      [] name = "ndk_libgnustl_static" -> "libgnustl"
      [] name = "ndk_libfoo_static" -> "libfoo"
      [] name = "libc++_static" -> "libc++"
      [] name = "stl_shared" -> "stl"

\* getNdkStlLibDir: the error it reports for an STL outside its switch
unknownNdkStl(m) ==
    IF NdkStlName(m.name) \in {"libstlport", "libc++", "libgnustl"}
    THEN <<>>
    ELSE <<ModuleError("Unknown NDK STL", NdkStlName(m.name))>>

ndkPrebuiltStlLinkerLink(m, v, b, flags, dp, objFiles, missing) ==
    [b |-> [b EXCEPT !.outputFile = << <<v[1], v[2], IF m.BuildStatic THEN ".a" ELSE ".so">> >>,
                     !.exportedFlags = Append(@, m.Export_include_flag)],
     errs |-> (IF ~HasNdkLibPrefix(m.name)
               THEN <<ModuleError("NDK prebuilts must have an ndk_lib prefixed name", m.name)>>
               ELSE <<>>)
              \o unknownNdkStl(m)]

ndkPrebuiltLibraryLinkerLink(m, v, b, flags, dp, objFiles, missing) ==
    [b |-> [b EXCEPT !.outputFile = << <<v[1], v[2], ".so">> >>,
                     !.exportedFlags = Append(@, m.Export_include_flag)],
     errs |-> IF ~HasNdkLibPrefix(m.name)
              THEN <<ModuleError("NDK prebuilts must have an ndk_lib prefixed name", m.name)>>
              ELSE <<>>]

moduleLink(m, v, b, flags, dp, objFiles, missing) ==
    CASE m.kind = "library" -> libraryLinkerLink(m, v, b, flags, dp, objFiles, missing)
      [] m.kind = "ndk_prebuilt_library" ->
            ndkPrebuiltLibraryLinkerLink(m, v, b, flags, dp, objFiles, missing)
      [] m.kind \in {"binary", "test"} -> binaryLinkerLink(m, v, b, flags, dp, objFiles, missing)
      [] m.kind = "ndk_prebuilt_stl" ->
            ndkPrebuiltStlLinkerLink(m, v, b, flags, dp, objFiles, missing)
      [] m.kind = "ndk_prebuilt_object" ->
            ndkPrebuiltObjectLinkerLink(m, v, b, flags, dp, objFiles, missing)
      [] m.kind = "object" -> objectLinkerLink(m, v, b, flags, dp, objFiles, missing)
      [] m.kind = "toolchain_library" ->
            toolchainLibraryLinkerLink(m, v, b, flags, dp, objFiles, missing)

(***************************************************************************)
(* Module.GenerateAndroidBuildActions: [bt, errs, missing] after the call. *)
(* The PathDeps of the call is kept in the variant's record as pathDeps,   *)
(* and the stages that ran as ran.                                         *)
(***************************************************************************)
\* ctx.Failed(), as a variant that never reports a failure.
FailedNever(es) == FALSE

\* ctx.Failed(): the module context holds an error
Failed(es) == es # <<>>

generateAndroidBuildActions(v, M, bt, missing, es) ==
    LET m == M[v]
        linked(r, bt1, l) ==
            IF Failed(l.errs)
            THEN [bt |-> [bt1 EXCEPT ![v] = [l.b EXCEPT !.outputFile = <<>>]],
                  errs |-> l.errs, missing |-> r.missing]
            ELSE [bt |-> [bt1 EXCEPT ![v] = l.b], errs |-> <<>>, missing |-> r.missing]
        compiled(f, r, bt1, c) ==
            linked(r, bt1,
                   moduleLink(m, v,
                              [bt1[v] EXCEPT !.cflags = <<"$cflags">> \o r.dp.Cflags,
                                             !.reuseObjFiles = c.reuseObjFiles,
                                             !.compiledSrcs = c.objFiles,
                                             !.ran = (@ \o (IF HasCompiler(m) THEN <<"compile">>
                                                                             ELSE <<>>))
                                                     \o <<"link">>],
                              f, r.dp, c.objFiles, r.missing))
        resolved(f, r, bt1) ==
            IF Failed(r.errs)
            THEN [bt |-> bt1, errs |-> r.errs, missing |-> r.missing]
            ELSE compiled(f, r, bt1, moduleCompile(m, v))
        recorded(f, r) ==
            resolved(f, r, [r.bt EXCEPT ![v].pathDeps = r.dp,
                                        ![v].cflagsVar = f.CFlags,
                                        ![v].cppflagsVar = f.CppFlags,
                                        ![v].conlyFlags = f.ConlyFlags,
                                        ![v].ran = <<"flags", "depsToPaths">>])
        stripped(f) == recorded(f, depsToPaths(v, M, bt, missing, es, bt[v].pathDeps))
        composed(cx) ==
            IF Failed(cx.errs)
            THEN [bt |-> [bt EXCEPT ![v].ran = <<"flags">>], errs |-> cx.errs,
                  missing |-> missing]
            ELSE stripped(stripIllegalFlags(cx.flags))
    IN  composed(moduleFlags(m))

\* The engine calls a module after every module it depends on.
Ready(v) ==
    /\ \A x \in DOMAIN mods : PcIndex(pc[x]) >= Len(mutators)
    /\ \A i \in 1..Len(edges[v]) : pc[edges[v][i].to] = "built"

\* A disabled variant, or one whose mutators reported errors, is not planned.
Planned(v) == mods[v].enabled /\ errs[v] = <<>>

Generate(v) ==
    /\ ~panicked
    /\ v \in DOMAIN mods
    /\ PcIndex(pc[v]) = Len(mutators)
    /\ Ready(v)
    /\ pc' = [pc EXCEPT ![v] = "built"]
    /\ IF ~Planned(v)
       THEN UNCHANGED <<built, errs, missingDeps>>
       ELSE LET record(r) ==
                    /\ built' = r.bt
                    /\ errs' = [errs EXCEPT ![v] = r.errs]
                    /\ missingDeps' = [missingDeps EXCEPT ![v] = r.missing]
            IN  record(generateAndroidBuildActions(v, mods, built, missingDeps[v], edges[v]))
    /\ UNCHANGED <<mods, classified, edges, rerun, nreruns, panicked>>

\* A second call of Module.deps and Module.depsToPaths on a planned variant.
Rerun(v) ==
    /\ ~panicked
    /\ v \in DOMAIN mods
    /\ pc[v] = "built"
    /\ built[v].outputFile # <<>>
    /\ ~rerun[v].ran
    /\ nreruns < MaxReruns
    /\ LET record(cx, r) ==
               /\ rerun' = [rerun EXCEPT ![v] = [ran |-> TRUE, deps |-> cx.deps, pathDeps |-> r.dp]]
               /\ built' = r.bt
               /\ missingDeps' = [missingDeps EXCEPT ![v] = r.missing]
               /\ errs' = [errs EXCEPT ![v] = @ \o cx.errs \o r.errs]
       IN  record(moduleDeps(mods[v]),
                  depsToPaths(v, mods, built, missingDeps[v], edges[v], built[v].pathDeps))
    /\ nreruns' = nreruns + 1
    /\ UNCHANGED <<mods, pc, classified, edges, panicked>>

(***************************************************************************)
(* The declared modules.  Init draws one set of module declarations from   *)
(* the families below; each family varies the properties some operation    *)
(* of the package is sensitive to.                                         *)
(***************************************************************************)
SeqUpTo(n, S) == UNION {[1..k -> S] : k \in 0..n}

Library(name, buildStatic_, buildShared_) ==
    [BaseProps EXCEPT !.name = name, !.kind = "library",
                      !.BuildStatic = buildStatic_, !.BuildShared = buildShared_]
Binary(name, staticExecutable) ==
    [BaseProps EXCEPT !.name = name, !.kind = "binary", !.Static_executable = staticExecutable]
Object(name) == [BaseProps EXCEPT !.name = name, !.kind = "object"]
Test(name) == [BaseProps EXCEPT !.name = name, !.kind = "test", !.Gtest = TRUE]
ToolchainLibrary(name) == [BaseProps EXCEPT !.name = name, !.kind = "toolchain_library"]
NdkPrebuiltLibrary(name, version) ==
    [BaseProps EXCEPT !.name = name, !.kind = "ndk_prebuilt_library",
                      !.Sdk_version = version, !.BuildShared = TRUE]

Table(S) == [v \in {<<m.name, "">> : m \in S} |-> CHOOSE m \in S : m.name = v[1]]

NdkPrebuiltObject(name, version) ==
    [BaseProps EXCEPT !.name = name, !.kind = "ndk_prebuilt_object", !.Sdk_version = version]
NdkPrebuiltStl(name, isStatic) ==
    [BaseProps EXCEPT !.name = name, !.kind = "ndk_prebuilt_stl", !.Sdk_version = "9",
                      !.BuildStatic = isStatic, !.BuildShared = ~isStatic]

LibraryKinds == {<<TRUE, FALSE>>, <<FALSE, TRUE>>}
Platforms == {<<"android", "">>, <<"android", "9">>, <<"linux", "">>}

\* One requester, with static-side names in every order and multiplicity.
Requesters ==
    {Binary("app", sx) : sx \in BOOLEAN} \cup {Library("app", k[1], k[2]) : k \in LibraryKinds}

StaticFamily ==
    {Table({[r EXCEPT !.os = p[1], !.Sdk_version = p[2],
                      !.Static_libs = sl, !.Export_static_lib_headers = ex]}) :
        r \in Requesters, p \in Platforms,
        sl \in SeqUpTo(MaxLen, {"liba", "libb", "libc"}),
        ex \in {<<>>, <<"liba">>, <<"libc">>, <<"libcompiler_rt-extras">>}}

\* One requester, with shared-side names and the system shared libraries.
SharedFamily ==
    {Table({[r EXCEPT !.os = p[1], !.Sdk_version = p[2],
                      !.Shared_libs = sl, !.Shared.Shared_libs = psl,
                      !.Export_shared_lib_headers = ex,
                      !.System_shared_libs_set = ssl[1], !.System_shared_libs = ssl[2]]}) :
        r \in {Binary("app", FALSE), Library("app", FALSE, TRUE), Library("app", TRUE, FALSE)},
        p \in Platforms,
        sl \in SeqUpTo(MaxLen - 1, {"liba", "libm"}),
        psl \in {<<>>, <<"libb">>},
        ex \in {<<>>, <<"liba">>, <<"libb">>},
        ssl \in {<<FALSE, <<>> >>, <<TRUE, <<>> >>, <<TRUE, <<"libc">> >>,
                 <<TRUE, <<"libdl", "libc", "libdl">> >>}}

\* A library built in both modes, neither, or one, with per-mode sources and
\* flags, and a binary that links against it.
LinkageFamily ==
    {Table({[Library("liba", bs, bsh) EXCEPT
                 !.os = "linux", !.Srcs = srcs, !.Export_include_flag = "-Iliba/include",
                 !.Static.Srcs = ss, !.Shared.Srcs = shs,
                 !.Static.Cflags = sc, !.Shared.Cflags = shc],
            [Binary("app", FALSE) EXCEPT !.os = "linux", !.Srcs = <<"main.c">>,
                                         !.Shared_libs = <<"liba">>]}) :
        bs \in BOOLEAN, bsh \in BOOLEAN,
        srcs \in {<<>>, <<"a.c">>},
        ss \in {<<>>, <<"static.c">>}, shs \in {<<>>, <<"shared.c">>},
        sc \in {<<>>, <<"-DSTATIC">>}, shc \in {<<>>, <<"-DSHARED">>}}

\* A static library with a missing dependency and its whole-static consumers.
WholeStaticFamily ==
    {Table({[Library("libw", TRUE, FALSE) EXCEPT
                 !.os = "linux", !.Srcs = <<"w.c">>, !.Static_libs = wl,
                 !.Export_include_flag = "-Ilibw/include"],
            [Library("c1", k1[1], k1[2]) EXCEPT
                 !.os = "linux", !.Srcs = <<"c1.c">>, !.Whole_static_libs = <<"libw">>],
            [Library("c2", k2[1], k2[2]) EXCEPT
                 !.os = "linux", !.Srcs = <<"c2.c">>, !.Whole_static_libs = w2]}) :
        wl \in {<<>>, <<"libx">>}, k1 \in LibraryKinds, k2 \in LibraryKinds,
        w2 \in {<<"libw">>, <<"c1">>, <<"libw", "c1">>}}

\* A requester and targets that are disabled, of another OS or architecture,
\* or without an output file.
RejectionFamily ==
    {Table({[Library("libt", TRUE, TRUE) EXCEPT
                 !.Srcs = <<"t.c">>, !.Export_include_flag = "-Ilibt/include",
                 !.enabled = en, !.os = p[1], !.arch = p[2], !.Static.Enabled = sen],
            [ToolchainLibrary("libgcc") EXCEPT !.Clang = cl],
            [Object("crtbegin_so") EXCEPT !.Srcs = <<"crtbegin.c">>, !.enabled = oen],
            [r EXCEPT !.Srcs = <<"r.c">>, !.Whole_static_libs = d[1], !.Static_libs = d[2],
                      !.Shared_libs = d[3], !.Export_shared_lib_headers = d[3]]}) :
        en \in BOOLEAN, sen \in BOOLEAN, cl \in BOOLEAN, oen \in BOOLEAN,
        p \in {<<"android", "arm">>, <<"linux", "arm">>, <<"android", "x86">>},
        r \in {Library("app", FALSE, TRUE), Binary("app", FALSE)},
        d \in {<< <<"libt">>, <<>>, <<>> >>, << <<>>, <<"libt">>, <<>> >>,
               << <<>>, <<>>, <<"libt">> >>, << <<"libgcc", "libt">>, <<>>, <<>> >>}}

\* A shared library or binary with user-declared and system shared libraries,
\* for the platform and against the NDK.
LinkOrderFamily ==
    {Table({[Library("liba", FALSE, TRUE) EXCEPT !.Sdk_version = sv, !.Nocrt = TRUE],
            [Library("libb", FALSE, TRUE) EXCEPT !.Sdk_version = sv, !.Nocrt = TRUE],
            [Library("libc", FALSE, TRUE) EXCEPT !.Nocrt = TRUE, !.System_shared_libs_set = TRUE],
            NdkPrebuiltLibrary("ndk_libc.9", "9"),
            [r EXCEPT !.Sdk_version = sv, !.Nocrt = TRUE, !.Srcs = <<"r.c">>,
                      !.Shared_libs = sl, !.Shared.Shared_libs = psl,
                      !.System_shared_libs_set = ssl[1], !.System_shared_libs = ssl[2]]}) :
        sv \in {"", "9"},
        r \in {Library("app", FALSE, TRUE), Binary("app", FALSE)},
        sl \in {<<>>, <<"liba">>, <<"libc", "liba">>},
        psl \in {<<>>, <<"libb">>},
        ssl \in {<<FALSE, <<>> >>, <<TRUE, <<"libc">> >>}}

\* A chain app -> libb -> liba: libb names liba, alone or with libx, as a
\* static, whole static or shared library, with or without re-exporting its
\* headers, and app names libb.
ChainFamily ==
    {Table({[Library("liba", role # "shared", role = "shared") EXCEPT
                 !.os = "linux", !.Srcs = <<"a.c">>, !.Export_include_flag = "-Iliba/include"],
            [Library("libx", role # "shared", role = "shared") EXCEPT
                 !.os = "linux", !.Srcs = <<"x.c">>, !.Export_include_flag = "-Ilibx/include"],
            [Library("libb", kb[1], kb[2]) EXCEPT
                 !.os = "linux", !.Srcs = <<"b.c">>, !.Export_include_flag = "-Ilibb/include",
                 !.Whole_static_libs = IF role = "whole" THEN libs ELSE <<>>,
                 !.Static_libs = IF role = "static" THEN libs ELSE <<>>,
                 !.Shared_libs = IF role = "shared" THEN libs ELSE <<>>,
                 !.Export_static_lib_headers = IF role = "static" THEN ex ELSE <<>>,
                 !.Export_shared_lib_headers = IF role = "shared" THEN ex ELSE <<>>],
            [Binary("app", FALSE) EXCEPT
                 !.os = "linux", !.Srcs = <<"main.c">>,
                 !.Static_libs = IF kb[1] THEN <<"libb">> ELSE <<>>,
                 !.Shared_libs = IF kb[2] THEN <<"libb">> ELSE <<>>]}) :
        kb \in LibraryKinds,
        role \in {"whole", "static", "shared"},
        libs \in {<<"liba">>, <<"liba", "libx">>},
        ex \in {<<>>, <<"liba">>, <<"libx">>}}

\* One module of every kind with a compiler, for GCC or Clang, with the illegal
\* flag among its declared flags, and a static library it names.
FlagsFamily ==
    {Table({[Library("libdep", TRUE, FALSE) EXCEPT
                 !.os = os, !.Srcs = <<"dep.c">>, !.Export_include_flag = "-Ilibdep/include"],
            [r EXCEPT !.os = os, !.Srcs = <<"a.c">>, !.Clang = cl,
                      !.Static_libs = <<"libdep">>,
                      !.Cflags = cf, !.Cppflags = cpp, !.Conlyflags = co,
                      !.Clang_cflags = IF cl THEN <<"-w">> ELSE <<>>,
                      !.Static.Cflags = pm, !.Shared.Cflags = pm,
                      !.Ldflags = <<"-fno-tree-sra">>,
                      !.Instruction_set = is]}) :
        r \in {Library("app", TRUE, TRUE), Binary("app", FALSE), Test("app"), Object("app")},
        os \in {"android", "linux"}, cl \in BOOLEAN,
        cf \in {<<>>, <<"-w">>, <<"-DX", "-w", "-finline-limit=64", "-w", "-O2 -w">>},
        cpp \in {<<>>, <<"-w", "-fno-exceptions">>},
        co \in {<<>>, <<"-std=c99", "-w">>},
        pm \in {<<>>, <<"-w", "-DMODE">>},
        is \in {"", "bogus"}}

\* A library for Linux, Android or Darwin with a version script and symbol
\* lists, each set or not.
ExportControlFamily ==
    {Table({[Library("libe", k[1], k[2]) EXCEPT
                 !.os = os, !.Srcs = <<"e.c">>,
                 !.Version_script = vs, !.Unexported_symbols_list = un,
                 !.Force_symbols_not_weak_list = nw, !.Force_symbols_weak_list = fw]}) :
        k \in {<<TRUE, TRUE>>, <<FALSE, TRUE>>},
        os \in {"android", "linux", "darwin"},
        vs \in {"", "lib.map"}, un \in {"", "unexported.txt"},
        nw \in {"", "notweak.txt"}, fw \in {"", "weak.txt"}}

\* A library that fails in its flags stage, in depsToPaths or in its link
\* step, or in none; a requester that names it; and a binary that does not,
\* but absorbs the same static library.
FailureFamily ==
    {Table({[Library("libw", TRUE, FALSE) EXCEPT
                 !.os = "linux", !.Srcs = <<"w.c">>, !.Static_libs = wl],
            [Library("liboff", TRUE, FALSE) EXCEPT
                 !.os = "linux", !.Srcs = <<"off.c">>, !.enabled = FALSE],
            [Library("libf", k[1], k[2]) EXCEPT
                 !.os = "linux", !.Srcs = <<"f.c">>, !.Export_include_flag = "-Ilibf/include",
                 !.Whole_static_libs = <<"libw">>, !.Static_libs = sl,
                 !.Instruction_set = is, !.Force_symbols_weak_list = fw],
            [r EXCEPT !.os = "linux", !.Srcs = <<"r.c">>, !.enabled = en,
                      !.Static_libs = IF k[1] THEN <<"libf">> ELSE <<>>,
                      !.Shared_libs = IF k[2] THEN <<"libf">> ELSE <<>>],
            [Binary("other", FALSE) EXCEPT
                 !.os = "linux", !.Srcs = <<"o.c">>, !.Whole_static_libs = <<"libw">>]}) :
        wl \in {<<>>, <<"libx">>}, k \in LibraryKinds,
        sl \in {<<>>, <<"liboff">>}, is \in {"", "bogus"}, fw \in {"", "weak.txt"},
        r \in {Binary("app", FALSE), Library("app", FALSE, TRUE)}, en \in BOOLEAN}

\* A test with up to MaxSrcs sources, built as one binary or one per source.
TestFamily ==
    {Table({[Test("t") EXCEPT !.os = "linux", !.Srcs = srcs, !.Test_per_src = per]}) :
        srcs \in SeqUpTo(MaxSrcs, {"a.c", "b.c", "a.cpp", "dir/a.c", "dir/c.c"}) \ {<<>>},
        per \in BOOLEAN}

\* An object with no, one or two sources of its own that names no, one or
\* two other objects.
ObjectFamily ==
    {Table({[Object("dep1") EXCEPT !.os = "linux", !.Srcs = <<"d.c">>],
            [Object("dep2") EXCEPT !.os = "linux", !.Srcs = <<"d1.c", "d2.c">>],
            [Object("obj") EXCEPT !.os = "linux", !.Srcs = srcs, !.Objs = objs]}) :
        srcs \in {<<>>, <<"o1.c">>, <<"o1.c", "o2.c">>},
        objs \in {<<>>, <<"dep1">>, <<"dep2">>, <<"dep2", "dep1">>}}

\* A library built in both modes or a binary, for GCC or Clang, with flags
\* in its cflags, release cflags, clang_cflags, per-mode cflags, cppflags and
\* ldflags: flags in no denylist, one of them (-DX) in several properties,
\* and flags unknown to Clang.
CompositionFamily ==
    {Table({[r EXCEPT !.os = "linux", !.Srcs = <<"a.c">>, !.Clang = cl,
                      !.Cflags = cf, !.Release_cflags = rel, !.Clang_cflags = ccf,
                      !.Static.Cflags = pm, !.Shared.Cflags = pm,
                      !.Cppflags = cpp, !.Ldflags = ld]}) :
        r \in {Library("app", TRUE, TRUE), Binary("app", FALSE)}, cl \in BOOLEAN,
        cf \in {<<>>, <<"-DA", "-DX">>, <<"-DX", "-fno-tree-sra", "-DX">>},
        rel \in {<<>>, <<"-DR", "-DX">>, <<"-finline-limit=64">>},
        ccf \in {<<>>, <<"-DC", "-DX">>, <<"-fno-tree-sra">>},
        pm \in {<<>>, <<"-DM", "-DX">>, <<"-finline-limit=64">>},
        cpp \in {<<>>, <<"-fno-tree-sra">>},
        ld \in {<<>>, <<"-fno-tree-sra">>}}

\* A binary or test, static or dynamic, for the device or the host, with the
\* group libraries and libc++_static among its static libraries.
GroupLibsFamily ==
    {Table({[r EXCEPT !.os = os, !.Srcs = <<"main.c">>, !.Static_libs = sl]}) :
        r \in {Binary("app", FALSE), Binary("app", TRUE),
               [Test("app") EXCEPT !.Static_executable = TRUE]},
        os \in {"android", "linux"},
        sl \in SeqUpTo(MaxLen, {"libc", "libc_nomalloc", "libcompiler_rt", "libc++_static"})}

\* A binary or test, stripped or not, with or without a symbol prefix, in a
\* build embedded in Make or not.
PostLinkFamily ==
    {Table({[r EXCEPT !.os = os, !.Srcs = <<"main.c">>, !.Stem = stem,
                      !.Strip_none = sn, !.Prefix_symbols = pfx, !.EmbeddedInMake = mk]}) :
        r \in {Binary("app", FALSE), Binary("app", TRUE), Test("app")},
        os \in {"android", "linux", "darwin"}, stem \in {"", "tool"},
        sn \in BOOLEAN, pfx \in {"", "pfx_"}, mk \in BOOLEAN}

\* An NDK prebuilt object, library or STL, with or without the prefix its
\* linker asks for, and for the STLs with a name inside or outside the
\* switch of getNdkStlLibDir.
NdkPrebuiltFamily ==
    {Table({[p EXCEPT !.Export_include_flag = "-isystem ndk/include"]}) :
        p \in {NdkPrebuiltObject(n, "9") : n \in {"ndk_crtbegin_so.9", "ndk_libc.9", "crtbegin_so"}}
              \cup {NdkPrebuiltLibrary(n, "9") : n \in {"ndk_libc.9", "ndk_crtbegin_so.9", "libc"}}
              \cup {NdkPrebuiltStl(n, st) :
                       n \in {"ndk_libc++_shared", "ndk_libgnustl_static", "ndk_libfoo_static",
                              "libc++_static", "stl_shared"},
                       st \in BOOLEAN}}

\* The roles a requester can name the library libc in.
LibcRoles ==
    {[NoPerMode EXCEPT !.Whole_static_libs = <<"libc">>],
     [NoPerMode EXCEPT !.Static_libs = <<"libc">>],
     [NoPerMode EXCEPT !.Shared_libs = <<"libc">>],
     [NoPerMode EXCEPT !.Srcs = <<"libc">>]}

\* A requester built for the platform or against the NDK, on the device or the
\* host, and a library it names in one role (Srcs stands for the role
\* system_shared_libs), built for the platform or against the NDK.
NdkFamily ==
    {Table({[Library("libc", TRUE, TRUE) EXCEPT
                 !.os = p[1], !.Sdk_version = tsv, !.Nocrt = TRUE,
                 !.System_shared_libs_set = TRUE, !.Srcs = <<"c.c">>,
                 !.Export_include_flag = "-Ilibc/include"],
            ToolchainLibrary("libgcc"),
            NdkPrebuiltLibrary("ndk_libc.9", "9"),
            [r EXCEPT !.os = p[1], !.Sdk_version = p[2], !.Nocrt = TRUE, !.Srcs = <<"r.c">>,
                      !.Whole_static_libs = d.Whole_static_libs,
                      !.Static_libs = d.Static_libs,
                      !.Shared_libs = d.Shared_libs,
                      !.System_shared_libs_set = TRUE,
                      !.System_shared_libs = d.Srcs]}) :
        r \in {Library("app", FALSE, TRUE), Library("app", TRUE, FALSE),
               Binary("app", FALSE), Binary("app", TRUE)},
        p \in {<<"android", "">>, <<"android", "9">>, <<"linux", "9">>},
        tsv \in {"", "9"},
        d \in LibcRoles}

Init ==
    /\ \/ mods \in StaticFamily
       \/ mods \in SharedFamily
       \/ mods \in LinkageFamily
       \/ mods \in WholeStaticFamily
       \/ mods \in RejectionFamily
       \/ mods \in LinkOrderFamily
       \/ mods \in NdkFamily
       \/ mods \in ChainFamily
       \/ mods \in FlagsFamily
       \/ mods \in ExportControlFamily
       \/ mods \in FailureFamily
       \/ mods \in TestFamily
       \/ mods \in ObjectFamily
       \/ mods \in NdkPrebuiltFamily
       \/ mods \in PostLinkFamily
       \/ mods \in GroupLibsFamily
       \/ mods \in CompositionFamily
    /\ pc = [v \in DOMAIN mods |-> "new"]
    /\ classified = [v \in DOMAIN mods |-> EmptyDeps]
    /\ edges = [v \in DOMAIN mods |-> <<>>]
    /\ missingDeps = [v \in DOMAIN mods |-> <<>>]
    /\ errs = [v \in DOMAIN mods |-> <<>>]
    /\ built = [v \in DOMAIN mods |-> NotBuilt]
    /\ rerun = [v \in DOMAIN mods |-> NoRerun]
    /\ nreruns = 0
    /\ panicked = FALSE

Next ==
    \/ \E v \in DOMAIN mods : LinkageMutator(v)
    \/ \E v \in DOMAIN mods : TestPerSrcMutator(v)
    \/ \E v \in DOMAIN mods : DepsMutator(v)
    \/ \E v \in DOMAIN mods, t \in {"asan", "tsan"} : SanitizerDepsMutator(t, v)
    \/ \E v \in DOMAIN mods, t \in {"asan", "tsan"} : SanitizerMutator(t, v)
    \/ \E v \in DOMAIN mods : Generate(v)
    \/ \E v \in DOMAIN mods : Rerun(v)

Spec == Init /\ [][Next]_vars

(***************************************************************************)
(* Properties.  A variant is classified once Module.depsMutator has run on *)
(* it, and generated once GenerateAndroidBuildActions has run on it (the   *)
(* call records a C flag list or an output file).                          *)
(***************************************************************************)
Classified(v) == PcIndex(pc[v]) >= MutatorIndex("deps")
Generated(v) == pc[v] = "built" /\ inList("depsToPaths", built[v].ran)
HasOutput(v) == pc[v] = "built" /\ built[v].outputFile # <<>>

Positions(list, x) == {i \in 1..Len(list) : list[i] = x}
LastPosition(list, x) ==
    CHOOSE i \in Positions(list, x) : \A j \in Positions(list, x) : j <= i
NoDuplicates(list) == \A i, j \in 1..Len(list) : list[i] = list[j] => i = j

\* out holds exactly one copy of each element of in, in the order of the
\* elements' last positions in in.
OrderedByLastOccurrence(out, in) ==
    /\ NoDuplicates(out)
    /\ Range(out) = Range(in)
    /\ \A i, j \in 1..Len(out) :
          i < j => LastPosition(in, out[i]) < LastPosition(in, out[j])

DedupedBuckets ==
    {"WholeStaticLibs", "StaticLibs", "LateStaticLibs", "SharedLibs", "LateSharedLibs"}

\* C1: lastUniqueElements returns exactly one occurrence of each distinct
\* name of its input, ordered by the position of the name's last occurrence
\* ([A, B, A] gives [B, A]), and every one of the five classified library
\* buckets of a variant is the accumulated bucket deduplicated that way, so
\* no classified bucket holds a duplicate name.
C1_BucketsKeepLastOccurrence ==
    /\ lastUniqueElements(<<"A", "B", "A">>) = <<"B", "A">>
    /\ \A v \in DOMAIN mods :
          Classified(v) =>
             \A b \in DedupedBuckets :
                OrderedByLastOccurrence(classified[v][b], accumulatedDeps(mods[v]).deps[b])

\* A variant that declared static libs [liba, libb, liba] is classified with
\* [libb, liba] in front of its static bucket.
C1_Witness ==
    \E v \in DOMAIN mods :
        /\ pc[v] = "deps"
        /\ mods[v].Static_libs = <<"liba", "libb", "liba">>
        /\ SubSeq(classified[v].StaticLibs, 1, 2) = <<"libb", "liba">>
        /\ ~NoDuplicates(accumulatedDeps(mods[v]).deps.StaticLibs)

\* C2: on a classified variant (the process has not panicked), a property
\* error for a name of the static (resp. shared) re-export list is reported
\* exactly when the name is absent from the variant's final static (resp.
\* shared) bucket, and the classification reports no other property error
\* (the errors on a variant that is not generated yet).
C2_ReexportErrorIffAbsent ==
    \A v \in DOMAIN mods :
        Classified(v) =>
           /\ ~panicked
           /\ \A n \in Range(classified[v].ReexportStaticLibHeaders) :
                 (PropertyError("export_static_lib_headers", n) \in Range(errs[v]))
                    <=> ~(n \in Range(classified[v].StaticLibs))
           /\ \A n \in Range(classified[v].ReexportSharedLibHeaders) :
                 (PropertyError("export_shared_lib_headers", n) \in Range(errs[v]))
                    <=> ~(n \in Range(classified[v].SharedLibs))
           /\ \A e \in Range(errs[v]) :
                 e.kind = "property" /\ pc[v] # "built" =>
                    \/ /\ e.what = "export_static_lib_headers"
                       /\ e.arg \in Range(classified[v].ReexportStaticLibHeaders)
                    \/ /\ e.what = "export_shared_lib_headers"
                       /\ e.arg \in Range(classified[v].ReexportSharedLibHeaders)

\* A classified variant re-exports the headers of a static library that is
\* not in its static bucket, and the property error is on it.
C2_Witness ==
    \E v \in DOMAIN mods :
        /\ pc[v] = "deps"
        /\ "liba" \in Range(classified[v].ReexportStaticLibHeaders)
        /\ ~("liba" \in Range(classified[v].StaticLibs))
        /\ PropertyError("export_static_lib_headers", "liba") \in Range(errs[v])

RequestsBoth(m) == m.kind = "library" /\ m.BuildStatic /\ m.BuildShared
StaticOf(v) == <<v[1], "static">>
SharedOf(v) == <<v[1], "shared">>
Siblings(v) == {x \in DOMAIN mods : x[1] = v[1]}
\* both siblings are as linkageMutator left them
JustSplit(v) ==
    /\ StaticOf(v) \in DOMAIN mods /\ SharedOf(v) \in DOMAIN mods
    /\ pc[StaticOf(v)] = "link" /\ pc[SharedOf(v)] = "link"
NoPerModeCflags(v) ==
    Len(mods[StaticOf(v)].Static.Cflags) = 0 /\ Len(mods[SharedOf(v)].Shared.Cflags) = 0

\* C3 as stated: a library that requests both builds is split into exactly
\* the static and the shared variant, and the two differ in the link mode
\* only, every other field, the common source list included, being equal.
C3_SiblingsDifferOnlyInLinkMode ==
    \A v \in DOMAIN mods :
        RequestsBoth(mods[v]) /\ pc[v] # "new" =>
           /\ Siblings(v) = {StaticOf(v), SharedOf(v)}
           /\ JustSplit(v) =>
                 /\ mods[StaticOf(v)].VariantIsStatic
                 /\ ~mods[SharedOf(v)].VariantIsStatic
                 /\ [mods[SharedOf(v)] EXCEPT !.VariantIsStatic = TRUE] = mods[StaticOf(v)]

\* C3 amended: a library that requests both builds is split into exactly the
\* static and the shared variant; the two differ in the link mode and, when
\* neither mode declares mode-specific cflags, in the common source list,
\* which is empty in the shared variant; every other field is equal.
C3_SiblingsDifferInLinkModeAndReusedSrcs ==
    \A v \in DOMAIN mods :
        RequestsBoth(mods[v]) /\ pc[v] # "new" =>
           /\ Siblings(v) = {StaticOf(v), SharedOf(v)}
           /\ JustSplit(v) =>
                 /\ mods[StaticOf(v)].VariantIsStatic
                 /\ ~mods[SharedOf(v)].VariantIsStatic
                 /\ [mods[SharedOf(v)] EXCEPT !.VariantIsStatic = TRUE,
                                              !.Srcs = mods[StaticOf(v)].Srcs]
                       = mods[StaticOf(v)]
                 /\ mods[SharedOf(v)].Srcs =
                       IF NoPerModeCflags(v) THEN <<>> ELSE mods[StaticOf(v)].Srcs

\* A library with a common source has just been split, and the shared
\* variant's common source list is empty.
C3_Witness ==
    \E v \in DOMAIN mods :
        /\ RequestsBoth(mods[v]) /\ JustSplit(v)
        /\ mods[StaticOf(v)].Srcs = <<"a.c">>
        /\ mods[SharedOf(v)].Srcs = <<>>
        /\ mods[StaticOf(v)].Static.Srcs # <<>>

HasReuseEdge(v) ==
    \E i \in 1..Len(edges[SharedOf(v)]) :
        edges[SharedOf(v)][i] = Edge(StaticOf(v), reuseObjTag)
IsSplit(v) ==
    /\ RequestsBoth(mods[v])
    /\ StaticOf(v) \in DOMAIN mods /\ SharedOf(v) \in DOMAIN mods
\* the objects the variant v compiled from the sources srcs in subdir
Objs(v, subdir, srcs) == {<<v[1], v[2], subdir, srcs[i]>> : i \in 1..Len(srcs)}

\* C4 as stated: the shared sibling has the reuse-objects edge to the static
\* sibling if and only if neither mode declares mode-specific sources.
C4_ReuseIffNoPerModeSrcs ==
    \A v \in DOMAIN mods :
        IsSplit(v) =>
           (HasReuseEdge(v) <=>
               /\ Len(mods[StaticOf(v)].Static.Srcs) = 0
               /\ Len(mods[SharedOf(v)].Shared.Srcs) = 0)

\* C4 amended: the shared sibling has the reuse-objects edge and an empty
\* common source list if and only if neither mode declares mode-specific
\* cflags; a shared sibling that links compiles its shared-specific sources
\* itself in either case, takes the common objects from the static sibling
\* when it reuses, and compiles the common sources itself when it does not.
C4_ReuseIffNoPerModeCflags ==
    \A v \in DOMAIN mods :
        IsSplit(v) =>
           /\ HasReuseEdge(v) <=> NoPerModeCflags(v)
           /\ NoPerModeCflags(v) => mods[SharedOf(v)].Srcs = <<>>
           /\ ~NoPerModeCflags(v) => mods[SharedOf(v)].Srcs = mods[StaticOf(v)].Srcs
           /\ HasOutput(SharedOf(v)) =>
                 /\ Range(built[SharedOf(v)].compiledSrcs) =
                       Objs(SharedOf(v), "shared", mods[SharedOf(v)].Shared.Srcs)
                       \cup IF NoPerModeCflags(v) THEN {}
                            ELSE Objs(SharedOf(v), "", mods[StaticOf(v)].Srcs)
                 /\ Range(built[SharedOf(v)].pathDeps.ObjFiles) =
                       IF NoPerModeCflags(v)
                       THEN Objs(StaticOf(v), "", mods[StaticOf(v)].Srcs)
                       ELSE {}

\* A shared sibling with a shared-specific source and no mode-specific
\* cflags has linked: it reuses the static sibling's common object and
\* compiled only its own source.
C4_Witness ==
    \E v \in DOMAIN mods :
        /\ IsSplit(v) /\ HasOutput(SharedOf(v)) /\ HasReuseEdge(v)
        /\ mods[SharedOf(v)].Shared.Srcs = <<"shared.c">>
        /\ mods[StaticOf(v)].Srcs = <<"a.c">>
        /\ built[SharedOf(v)].compiledSrcs = <<<<v[1], "shared", "shared", "shared.c">>>>
        /\ built[SharedOf(v)].pathDeps.ObjFiles = <<<<v[1], "static", "", "a.c">>>>

\* The shared libraries the module declares itself, and the system runtime
\* libraries the tool adds to them.
DeclaredSharedLibs(m) ==
    Range(m.Shared_libs)
    \cup IF m.kind = "library" THEN Range(m.Shared.Shared_libs) ELSE {}
RuntimeLibNames(m) ==
    {"libc", "libm", "ndk_libc.9", "ndk_libm.9"} \cup Range(m.System_shared_libs)
SystemRuntimeLibs(m) == RuntimeLibNames(m) \ DeclaredSharedLibs(m)
UserSharedLibs(m) == DeclaredSharedLibs(m) \ RuntimeLibNames(m)

\* C5: in the shared-library list handed to the link step of a shared
\* library or binary variant, every system runtime library comes after
\* every user-declared shared library.
C5_SystemLibsAfterUserLibs ==
    \A v \in DOMAIN mods :
        HasOutput(v) /\ mods[v].kind \in {"library", "binary"} /\ ~static(mods[v]) =>
           LET l == built[v].linkedSharedLibs
           IN  \A i, j \in 1..Len(l) :
                  /\ l[i][1] \in SystemRuntimeLibs(mods[v])
                  /\ l[j][1] \in UserSharedLibs(mods[v])
                  => j < i

LibcError == ModuleError("statically linking libc to dynamic executable", "libc")

\* C6 as stated: a binary that requests a static executable and has libc in
\* its static libs has the module error, and so has a dynamic executable
\* with libc in its static bucket.
C6_StaticAndDynamicLibcRejected ==
    \A v \in DOMAIN mods :
        mods[v].kind = "binary" /\ pc[v] = "deps" =>
           /\ mods[v].Static_executable /\ "libc" \in Range(mods[v].Static_libs)
                 => LibcError \in Range(errs[v])
           /\ ~mods[v].VariantIsStaticBinary /\ "libc" \in Range(classified[v].StaticLibs)
                 => LibcError \in Range(errs[v])

\* C6 amended: a classified binary has the module error if and only if it
\* is a dynamic executable with libc in its static libs; a static executable
\* that statically links libc is accepted.
C6_OnlyDynamicLibcRejected ==
    \A v \in DOMAIN mods :
        mods[v].kind = "binary" /\ Classified(v) =>
           (LibcError \in Range(errs[v])
               <=> /\ ~mods[v].VariantIsStaticBinary
                   /\ "libc" \in Range(mods[v].Static_libs))

\* A static executable for the device with libc in its static libs is
\* classified without an error, libc being in its late static bucket.
C6_Witness ==
    \E v \in DOMAIN mods :
        /\ mods[v].kind = "binary" /\ pc[v] = "deps"
        /\ mods[v].VariantIsStaticBinary
        /\ "libc" \in Range(mods[v].Static_libs)
        /\ "libc" \in Range(classified[v].LateStaticLibs)
        /\ errs[v] = <<>>

\* how many times the name n occurs in the sequence s
Occurrences(s, n) == Cardinality({i \in 1..Len(s) : s[i] = n})

\* C7: a consumer that has linked with a whole-static edge to W has, for
\* every missing dependency X W recorded, the entry "X (required by W)" in
\* its own missing dependencies, and no entry for X is annotated with W more
\* than once.
C7_AnnotatedExactlyOnce ==
    \A c \in DOMAIN mods :
        HasOutput(c) /\ nreruns = 0 =>
           \A i \in 1..Len(edges[c]) :
              edges[c][i].tag = wholeStaticDepTag =>
                 LET w == edges[c][i].to
                 IN  \A k \in 1..Len(missingDeps[w]) :
                        missingDeps[w][k].requiredBy = <<>> =>
                           /\ [name |-> missingDeps[w][k].name, requiredBy |-> <<w[1]>>]
                                 \in Range(missingDeps[c])
                           /\ \A e \in Range(missingDeps[c]) :
                                 e.name = missingDeps[w][k].name =>
                                    Occurrences(e.requiredBy, w[1]) <= 1

C9_NeitherModeIsModuleError ==
    /\ ~panicked
    /\ \A v \in DOMAIN mods :
          /\ IsBaseLinker(mods[v]) /\ ~buildStatic(mods[v]) /\ ~buildShared(mods[v])
          /\ pc[v] # "new"
          => errs[v] # <<>>

EdgeRejected(r, t) ==
    \/ ~mods[t].enabled
    \/ mods[t].os # mods[r].os
    \/ mods[t].arch # mods[r].arch
    \/ built[t].outputFile = <<>>
RejectionMessages ==
    {"depends on disabled module", "OS mismatch", "Arch mismatch", "missing output file"}
ResolvedPaths(dp) ==
    Range(dp.SharedLibs) \cup Range(dp.LateSharedLibs) \cup Range(dp.StaticLibs)
    \cup Range(dp.LateStaticLibs) \cup Range(dp.WholeStaticLibs) \cup Range(dp.ObjFiles)
    \cup Range(dp.WholeStaticLibObjFiles) \cup Range(dp.CrtBegin) \cup Range(dp.CrtEnd)

\* C10: on a generated variant, every edge whose target is disabled, of
\* another OS or architecture, or without an output file has a module error
\* naming the target, and nothing of the target is in the requester's
\* buckets, crt slots, object lists or flag lists.
C10_RejectedEdgeAddsNothing ==
    \A v \in DOMAIN mods :
        Generated(v) =>
           \A i \in 1..Len(edges[v]) :
              LET t == edges[v][i].to
              IN  EdgeRejected(v, t) =>
                     /\ \E e \in Range(errs[v]) :
                           /\ e.kind = "module"
                           /\ e.what \in RejectionMessages
                           /\ e.arg = mods[t].name
                     /\ \A p \in ResolvedPaths(built[v].pathDeps) : <<p[1], p[2]>> # t
                     /\ \A f \in Range(built[t].exportedFlags) :
                           f # "" =>
                              /\ ~(f \in Range(built[v].pathDeps.Cflags))
                              /\ ~(f \in Range(built[v].pathDeps.ReexportedCflags))

\* A generated variant has an edge to a target of another OS that linked
\* and exports a flag: the error is on the variant and its flag list
\* is empty.
C10_Witness ==
    \E v \in DOMAIN mods :
        /\ Generated(v)
        /\ \E i \in 1..Len(edges[v]) :
              LET t == edges[v][i].to
              IN  /\ mods[t].os # mods[v].os
                  /\ built[t].outputFile # <<>>
                  /\ built[t].exportedFlags # <<>>
                  /\ ModuleError("OS mismatch", mods[t].name) \in Range(errs[v])
        /\ built[v].pathDeps.Cflags = <<>>

(***************************************************************************)
(* The NDK link-type check.                                                *)
(***************************************************************************)
LibraryEdges(v) == {i \in 1..Len(edges[v]) : edges[v][i].tag.library}

\* The target sets no sdk_version and is no toolchain or NDK prebuilt library.
NotNdkLinkable(t) ==
    /\ mods[t].Sdk_version = ""
    /\ mods[t].kind \notin {"toolchain_library", "ndk_prebuilt_library", "ndk_prebuilt_stl"}

NdkError(t) == ModuleError("depends on non-NDK-built library", mods[t].name)

\* C11: on a resolved device variant with sdk_version, every library edge
\* (shared, static, late, whole static) whose target sets no sdk_version and
\* is no toolchain or NDK prebuilt library has a module error on the
\* requester that names the target: the NDK error when the edge passed
\* the checks of the target, and no NDK error names a target that may be
\* linked; a host variant or one without sdk_version has no NDK error.
C11_NdkLinkTypeEnforced ==
    \A v \in DOMAIN mods :
        Generated(v) =>
           /\ \A i \in LibraryEdges(v) :
                 LET t == edges[v][i].to
                 IN  IF Device(mods[v]) /\ mods[v].Sdk_version # "" /\ NotNdkLinkable(t)
                     THEN /\ \E e \in Range(errs[v]) : e.kind = "module" /\ e.arg = mods[t].name
                          /\ ~EdgeRejected(v, t) => NdkError(t) \in Range(errs[v])
                     ELSE NdkError(t) \notin Range(errs[v])
           /\ Host(mods[v]) \/ mods[v].Sdk_version = "" =>
                 \A e \in Range(errs[v]) : e.what # "depends on non-NDK-built library"

\* A device variant with sdk_version has resolved a late static or whole
\* static edge to a library without sdk_version that linked, and has the
\* NDK error naming it.
C11_Witness ==
    \E v \in DOMAIN mods :
        /\ Generated(v) /\ Device(mods[v]) /\ mods[v].Sdk_version = "9"
        /\ \E i \in LibraryEdges(v) :
              /\ edges[v][i].tag \in {lateStaticDepTag, wholeStaticDepTag}
              /\ NotNdkLinkable(edges[v][i].to)
              /\ ~EdgeRejected(v, edges[v][i].to)
              /\ NdkError(edges[v][i].to) \in Range(errs[v])

\* A host variant with sdk_version has linked against a library without
\* sdk_version.
HostLinksAnything ==
    \E v \in DOMAIN mods :
        /\ HasOutput(v) /\ Host(mods[v]) /\ mods[v].Sdk_version = "9"
        /\ \E i \in LibraryEdges(v) : NotNdkLinkable(edges[v][i].to)

(***************************************************************************)
(* C12.  Exported flags along the library edges.                           *)
(***************************************************************************)
\* The library edges of v, in order, that passed the checks of depsToPaths and
\* whose target exports flags.
ExportingEdges(v) ==
    SelectSeq(edges[v],
              LAMBDA e : /\ e.tag.library
                         /\ ~EdgeRejected(v, e.to)
                         /\ mods[e.to].kind \in {"library", "ndk_prebuilt_library"})

RECURSIVE ExportedAlong(_)
ExportedAlong(es) ==
    IF es = <<>> THEN <<>> ELSE built[Head(es).to].exportedFlags \o ExportedAlong(Tail(es))

ReexportEdges(v) == SelectSeq(ExportingEdges(v), LAMBDA e : e.tag.reexportFlags)

Targets(es) == {es[i].to : i \in 1..Len(es)}

\* The variant t carries the include flag of the variant a in its exported flags.
Carries(t, a) == inList(mods[a].Export_include_flag, built[t].exportedFlags)

\* c -> b -> a, where b is the only way the flags of a can reach c.
PureChain(c, b, a) ==
    /\ Generated(c) /\ inList("link", built[c].ran)
    /\ b \in Targets(ExportingEdges(c))
    /\ a \in Targets(ExportingEdges(b))
    /\ mods[a].Export_include_flag # ""
    /\ mods[a].Export_include_flag # mods[b].Export_include_flag
    /\ \A t \in Targets(ExportingEdges(c)) \ {b} : ~Carries(t, a)
    /\ \A t \in Targets(ExportingEdges(b)) \ {a} : ~Carries(t, a)

\* C12: every library edge that passed the checks adds the exported flags of
\* its target to the requester's compile flags, in edge order, and only the
\* edges marked re-export add them to what the requester re-exports; a
\* library exports its own include flag followed by exactly that.  So along
\* app -> b -> a, where b is the only way, the include flag of a is among
\* the compile flags of the requester if and only if b has a re-export edge to a.
C12_FlagsReexportedPerEdge ==
    /\ \A v \in DOMAIN mods : Generated(v) =>
            /\ built[v].pathDeps.Cflags = ExportedAlong(ExportingEdges(v))
            /\ built[v].pathDeps.ReexportedCflags = ExportedAlong(ReexportEdges(v))
            /\ inList("link", built[v].ran) =>
                    /\ built[v].cflags = <<"$cflags">> \o ExportedAlong(ExportingEdges(v))
                    /\ mods[v].kind = "library" =>
                            built[v].exportedFlags =
                                <<mods[v].Export_include_flag>> \o ExportedAlong(ReexportEdges(v))
    /\ \A c, b, a \in DOMAIN mods : PureChain(c, b, a) =>
            (inList(mods[a].Export_include_flag, built[c].cflags)
                <=> \E i \in 1..Len(edges[b]) : edges[b][i].to = a /\ edges[b][i].tag.reexportFlags)

\* A chain over a shared edge marked re-export: the flag of the last library
\* is among the compile flags of the first requester.
C12_Witness ==
    \E c, b, a \in DOMAIN mods :
        /\ PureChain(c, b, a)
        /\ \E i \in 1..Len(edges[b]) : edges[b][i] = Edge(a, sharedExportDepTag)
        /\ inList(mods[a].Export_include_flag, built[c].cflags)
        /\ mods[a].Export_include_flag = "-Iliba/include"

\* A chain without a re-export edge: the flag stops at the middle library.
ChainWithoutReexport ==
    \E c, b, a \in DOMAIN mods :
        /\ PureChain(c, b, a)
        /\ \A i \in 1..Len(edges[b]) : edges[b][i].to = a => ~edges[b][i].tag.reexportFlags
        /\ inList(mods[a].Export_include_flag, built[b].cflags)
        /\ ~inList(mods[a].Export_include_flag, built[c].cflags)

\* A library that names two static libraries and re-exports one has a
\* re-export edge to both.
ReexportEdgeToUndeclared ==
    \E c, b, a \in DOMAIN mods :
        /\ PureChain(c, b, a)
        /\ ~inList(a[1], mods[b].Export_static_lib_headers)
        /\ \E i \in 1..Len(edges[b]) : edges[b][i] = Edge(a, staticExportDepTag)
        /\ inList(mods[a].Export_include_flag, built[c].cflags)

(***************************************************************************)
(* C13.  The objects of a static library.                                  *)
(***************************************************************************)
WholeStaticEdges(v) == SelectSeq(edges[v], LAMBDA e : e.tag = wholeStaticDepTag)

RECURSIVE ObjFilesAlong(_)
ObjFilesAlong(es) ==
    IF es = <<>> THEN <<>> ELSE built[Head(es).to].objFiles \o ObjFilesAlong(Tail(es))

\* A static library variant whose link step ran.
LinkedStatic(v) ==
    /\ Generated(v) /\ inList("link", built[v].ran)
    /\ mods[v].kind = "library" /\ static(mods[v])

\* C13: the object list recorded for a linked static library variant is the
\* recorded object lists of the targets of its whole-static edges, in edge
\* order, followed by its own objects (the objects compiled from its sources,
\* then the objects of its object dependencies); so the list of a static
\* library holds the own objects of every library one or two whole-static
\* edges away.
C13_WholeStaticObjectsThenOwn ==
    /\ \A v \in DOMAIN mods : LinkedStatic(v) =>
            built[v].objFiles =
                (ObjFilesAlong(WholeStaticEdges(v)) \o built[v].compiledSrcs)
                    \o built[v].pathDeps.ObjFiles
    /\ \A v, t \in DOMAIN mods :
            LinkedStatic(v) /\ t \in Targets(WholeStaticEdges(v)) =>
                /\ Range(built[t].compiledSrcs) \subseteq Range(built[v].objFiles)
                /\ \A u \in Targets(WholeStaticEdges(t)) :
                        Range(built[u].compiledSrcs) \subseteq Range(built[v].objFiles)

\* A chain of two whole-static edges into a static library: the objects of
\* the last library come first, its own last.
C13_Witness ==
    \E v, t, u \in DOMAIN mods :
        /\ LinkedStatic(v)
        /\ WholeStaticEdges(v) = <<Edge(t, wholeStaticDepTag)>>
        /\ WholeStaticEdges(t) = <<Edge(u, wholeStaticDepTag)>>
        /\ built[u].compiledSrcs # <<>> /\ built[t].compiledSrcs # <<>>
        /\ built[v].compiledSrcs # <<>>
        /\ built[v].objFiles =
               (built[u].compiledSrcs \o built[t].compiledSrcs) \o built[v].compiledSrcs

(***************************************************************************)
(* C14.  Whole-static edges go to static library variants.                 *)
(***************************************************************************)
IsStaticLibrary(t) == mods[t].kind = "library" /\ static(mods[t])

NotStaticLibraryError(t) == ModuleError("not a static library", mods[t].name)

\* The whole-static edges of v that passed the first checks of depsToPaths and
\* lead to a static library variant.
AbsorbedEdges(v) ==
    SelectSeq(WholeStaticEdges(v), LAMBDA e : ~EdgeRejected(v, e.to) /\ IsStaticLibrary(e.to))

RECURSIVE OutputsAlong(_)
OutputsAlong(es) ==
    IF es = <<>> THEN <<>> ELSE built[Head(es).to].outputFile \o OutputsAlong(Tail(es))

\* C14: a whole-static edge always leads to the static variation of its
\* target, whatever the link mode of the requester; depsToPaths reports the
\* module error "not a static library" for a whole-static edge whose target
\* is not a static library variant, and the objects and archive paths it
\* absorbs are exactly those of the targets that are.
C14_WholeStaticOnlyFromStaticLibraries ==
    /\ \A v \in DOMAIN mods : Classified(v) =>
            \A i \in 1..Len(edges[v]) :
                edges[v][i].tag = wholeStaticDepTag => edges[v][i].to[2] = "static"
    /\ \A v \in DOMAIN mods : Generated(v) =>
            /\ \A t \in Targets(WholeStaticEdges(v)) :
                    ~EdgeRejected(v, t) =>
                        (inList(NotStaticLibraryError(t), errs[v]) <=> ~IsStaticLibrary(t))
            /\ built[v].pathDeps.WholeStaticLibObjFiles = ObjFilesAlong(AbsorbedEdges(v))
            /\ built[v].pathDeps.WholeStaticLibs = OutputsAlong(AbsorbedEdges(v))

\* A shared library variant with a whole-static edge to a toolchain library
\* and one to a static library variant: the error names the first, and only
\* the second is absorbed.
C14_Witness ==
    \E v, t, u \in DOMAIN mods :
        /\ Generated(v) /\ mods[v].kind = "library" /\ ~static(mods[v])
        /\ t \in Targets(WholeStaticEdges(v)) /\ u \in Targets(WholeStaticEdges(v))
        /\ ~EdgeRejected(v, t) /\ mods[t].kind = "toolchain_library"
        /\ inList(NotStaticLibraryError(t), errs[v])
        /\ ~EdgeRejected(v, u) /\ IsStaticLibrary(u)
        /\ built[v].pathDeps.WholeStaticLibs = built[u].outputFile
        /\ built[v].pathDeps.WholeStaticLibObjFiles = built[u].objFiles
        /\ built[u].objFiles # <<>>

(***************************************************************************)
(* C15.  The order of the flags stages and the strip of the illegal flags. *)
(***************************************************************************)
\* The flags after the stages compiler, linker, stl and sanitize, in this order.
StagedFlags(m) ==
    sanitizeFlags(m, stlFlags(m, linkerFlags(m, compilerFlags(m,
        [flags |-> NoFlags(m), errs |-> <<>>])))).flags

Without(list, x) == SelectSeq(list, LAMBDA f : f # x)

DeclaresIllegal(m) ==
    \/ inList("-w", m.Cflags) \/ inList("-w", m.Cppflags) \/ inList("-w", m.Conlyflags)
    \/ inList("-w", m.Clang_cflags) \/ inList("-w", m.Static.Cflags)
    \/ inList("-w", m.Shared.Cflags)

LinkedShared(v) ==
    /\ Generated(v) /\ inList("link", built[v].ran)
    /\ mods[v].kind = "library" /\ ~static(mods[v])

VersionScriptFlag == "-Wl,--version-script,lib.map"

\* <<property, declared path, linker flag>> of the three symbol lists
SymbolListFlags(m) ==
    { <<"unexported_symbols_list", m.Unexported_symbols_list,
        "-Wl,-unexported_symbols_list,unexported.txt">>,
      <<"force_symbols_not_weak_list", m.Force_symbols_not_weak_list,
        "-Wl,-force_symbols_not_weak_list,notweak.txt">>,
      <<"force_symbols_weak_list", m.Force_symbols_weak_list,
        "-Wl,-force_symbols_weak_list,weak.txt">> }

\* C16: when linkShared ran for a target other than Darwin, the linker flags
\* hold the version-script flag exactly if a version script is declared,
\* hold no symbol-list flag, and each declared symbol list is the property
\* error "Only supported on Darwin"; for Darwin each declared symbol list
\* adds its flag, no version-script flag is added, and a declared version
\* script is the property error "Not supported on Darwin".  A declared
\* property gives its flag or its error, never neither.
C16_ExportControlByPlatform ==
    \A v \in DOMAIN mods : LinkedShared(v) =>
        IF mods[v].os # "darwin"
        THEN /\ inList(VersionScriptFlag, built[v].ldFlags) <=> mods[v].Version_script # ""
             /\ ~inList(PropertyError("version_script", "Not supported on Darwin"), errs[v])
             /\ \A p \in SymbolListFlags(mods[v]) :
                    /\ ~inList(p[3], built[v].ldFlags)
                    /\ inList(PropertyError(p[1], "Only supported on Darwin"), errs[v])
                           <=> p[2] # ""
        ELSE /\ ~inList(VersionScriptFlag, built[v].ldFlags)
             /\ inList(PropertyError("version_script", "Not supported on Darwin"), errs[v])
                    <=> mods[v].Version_script # ""
             /\ \A p \in SymbolListFlags(mods[v]) :
                    /\ inList(p[3], built[v].ldFlags) <=> p[2] # ""
                    /\ ~inList(PropertyError(p[1], "Only supported on Darwin"), errs[v])

\* A shared library for Linux with a version script and all three symbol
\* lists: one flag and three errors.
C16_Witness ==
    \E v \in DOMAIN mods :
        /\ LinkedShared(v) /\ mods[v].os = "linux"
        /\ mods[v].Version_script # ""
        /\ \A p \in SymbolListFlags(mods[v]) : p[2] # ""
        /\ inList(VersionScriptFlag, built[v].ldFlags)
        /\ Len(errs[v]) = 3

\* A shared library for Darwin with a version script and a symbol list: the
\* error for the version script and the flag of the list.
DarwinVersionScriptRejected ==
    \E v \in DOMAIN mods :
        /\ LinkedShared(v) /\ mods[v].os = "darwin"
        /\ mods[v].Version_script # "" /\ mods[v].Force_symbols_weak_list # ""
        /\ errs[v] = <<PropertyError("version_script", "Not supported on Darwin")>>
        /\ inList("-Wl,-force_symbols_weak_list,weak.txt", built[v].ldFlags)

(***************************************************************************)
(* C17.  The order of the link-mode split and the sanitizer passes.        *)
(***************************************************************************)
SanitizerPasses == {"asan_deps", "asan", "tsan_deps", "tsan"}

\* The mutator name has run on the variant v.
HasRun(name, v) == PcIndex(pc[v]) >= MutatorIndex(name)

\* C17, as the specification states it: once the link-mode split has run on a
\* module, the sanitizer passes have run on it.
C17_SanitizerPassesBeforeLinkSplit ==
    \A v \in DOMAIN mods :
        HasRun("link", v) =>
            /\ HasRun("asan_deps", v) /\ HasRun("asan", v)
            /\ HasRun("tsan_deps", v) /\ HasRun("tsan", v)

\* C17, corrected: the link-mode split runs before the sanitizer passes.  When
\* a sanitizer pass has run on some module, the link-mode split, the split
\* per test source and the dependency pass have run on every module, and the
\* link-mode siblings of a library built in both modes exist.
C17_LinkSplitBeforeSanitizerPasses ==
    \A v \in DOMAIN mods :
        pc[v] \in SanitizerPasses =>
            /\ \A w \in DOMAIN mods : pc[w] \notin {"new", "link", "test_per_src"}
            /\ RequestsBoth(mods[v]) =>
                    /\ v \in {StaticOf(v), SharedOf(v)}
                    /\ StaticOf(v) \in DOMAIN mods /\ SharedOf(v) \in DOMAIN mods

\* The first sanitizer pass has run on the static variant of a library built
\* in both modes, and not yet on its shared sibling.
C17_Witness ==
    \E v \in DOMAIN mods :
        /\ RequestsBoth(mods[v]) /\ v = StaticOf(v)
        /\ pc[v] = "asan_deps"
        /\ SharedOf(v) \in DOMAIN mods /\ pc[SharedOf(v)] = "deps"

(***************************************************************************)
(* C18.  An error in a stage of GenerateAndroidBuildActions.               *)
(***************************************************************************)
\* GenerateAndroidBuildActions ran for the variant and reported an error.
FailedStage(v) == pc[v] = "built" /\ built[v].ran # <<>> /\ errs[v] # <<>>

FlagsMessages == {"unknown instruction set"}
DepsToPathsMessages ==
    RejectionMessages \cup {"depends on non-NDK-built library", "not a static library"}

HasEdge(r, t) == \E i \in 1..Len(edges[r]) : edges[r][i].to = t

\* A dependency path of at most n edges leads from u to t.
RECURSIVE PathWithin(_, _, _)
PathWithin(u, t, n) ==
    /\ n > 0
    /\ \E i \in 1..Len(edges[u]) :
            edges[u][i].to = t \/ PathWithin(edges[u][i].to, t, n - 1)

DependsOn(u, t) == PathWithin(u, t, Cardinality(DOMAIN mods))

\* The record, errors and missing dependencies GenerateAndroidBuildActions
\* gives the variant u when the records of the variants are bt.
PlanOf(u, bt) ==
    LET result(r) == <<r.bt[u], r.errs, r.missing>>
    IN  result(generateAndroidBuildActions(u, mods, bt, missingDeps[u], edges[u]))

\* The record of a variant that recorded an output file.
AsIfSucceeded(t) ==
    [built[t] EXCEPT !.outputFile = << <<t[1], t[2], "out">> >>,
                     !.exportedFlags = <<"-Iother/include">>,
                     !.objFiles = << <<t[1], t[2], "", "other.c">> >>,
                     !.ran = <<"flags", "depsToPaths", "compile", "link">>]

FailedInDepsToPaths ==
    \E t, r \in DOMAIN mods :
        /\ FailedStage(t) /\ built[t].ran = <<"flags", "depsToPaths">>
        /\ HasEdge(r, t) /\ Generated(r) /\ built[r].outputFile = <<>>
FailedInLink ==
    \E t, r \in DOMAIN mods :
        /\ FailedStage(t) /\ inList("link", built[t].ran)
        /\ HasEdge(r, t) /\ Generated(r) /\ built[r].outputFile = <<>>

\* A variant is about to be generated after a variant it does not depend on failed.
UnrelatedPlannedAfterFailure ==
    \E t, u \in DOMAIN mods :
        /\ FailedStage(t) /\ u # t /\ ~DependsOn(u, t)
        /\ pc[u] # "built" /\ Ready(u) /\ Planned(u) /\ edges[u] # <<>>

(***************************************************************************)
(* C19.  One test per source.                                              *)
(***************************************************************************)
\* The step replaces the test v, declared one binary per source, by siblings.
SplitsPerSrc(v) ==
    /\ v \in DOMAIN mods /\ v \notin DOMAIN mods'
    /\ mods[v].kind = "test" /\ mods[v].Test_per_src /\ pc[v] = "link"

\* C19: the step of testPerSrcMutator on a test declared one binary per
\* source, with the sources srcs, creates exactly Len(srcs) siblings; the
\* i-th has the variation name and the stem of the base name of srcs[i]
\* without its extension and the source list <<srcs[i]>>; and two siblings
\* of different sources differ in variation name and in stem.
C19_OneSiblingPerSource ==
    [][\A v \in DOMAIN mods : SplitsPerSrc(v) =>
          LET srcs == mods[v].Srcs
              sibs == DOMAIN mods' \ DOMAIN mods
          IN  /\ Cardinality(sibs) = Len(srcs)
              /\ \A i \in 1..Len(srcs) :
                    \E w \in sibs :
                        /\ w[Len(w)] = i
                        /\ w[Len(w) - 1] = TrimExtBase(srcs[i])
                        /\ mods'[w].Stem = TrimExtBase(srcs[i])
                        /\ mods'[w].Srcs = <<srcs[i]>>
              /\ \A w1, w2 \in sibs :
                    mods'[w1].Srcs # mods'[w2].Srcs =>
                        /\ w1[Len(w1) - 1] # w2[Len(w2) - 1]
                        /\ mods'[w1].Stem # mods'[w2].Stem
      ]_vars

\* Two siblings of one test, of different sources, with the same variation
\* name, the same stem and the same output file.
SiblingsCollide ==
    \E w1, w2 \in DOMAIN mods :
        /\ w1 # w2 /\ w1[1] = w2[1]
        /\ mods[w1].kind = "test" /\ mods[w2].kind = "test"
        /\ mods[w1].Srcs # mods[w2].Srcs
        /\ Generated(w1) /\ Generated(w2)
        /\ built[w1].outputFile # <<>>
        /\ built[w1].outputFile = built[w2].outputFile
        /\ built[w1].compiledSrcs # built[w2].compiledSrcs

(***************************************************************************)
(* C20.  The link step of an object module.                                *)
(***************************************************************************)
\* An object module variant whose link step ran.
LinkedObject(v) ==
    /\ Generated(v) /\ inList("link", built[v].ran)
    /\ mods[v].kind = "object"

ObjEdges(v) == SelectSeq(edges[v], LAMBDA e : e.tag = objDepTag)

\* The inputs of the link step: the objects compiled from the variant's own
\* sources, then the output files of the objects it names.
ObjectInputs(v) == built[v].compiledSrcs \o OutputsAlong(ObjEdges(v))

\* C20: the output file of a linked object module with exactly one input is
\* that input, and no merge is created; with any other number of inputs one
\* merge of all inputs, own objects first, is created, whose output is the
\* object file named after the module.
C20_SingleObjectPassedThrough ==
    \A v \in DOMAIN mods : LinkedObject(v) =>
        IF Len(ObjectInputs(v)) = 1
        THEN /\ built[v].outputFile = ObjectInputs(v)
             /\ built[v].linkAction = "" /\ built[v].linkInputs = <<>>
        ELSE /\ built[v].outputFile = << <<v[1], v[2], ".o">> >>
             /\ built[v].linkAction = "TransformObjsToObj"
             /\ built[v].linkInputs = ObjectInputs(v)

\* An object without sources that names one object, which itself has one
\* source: the compiled object of the second is the output file of both.
C20_Witness ==
    \E v, t \in DOMAIN mods :
        /\ LinkedObject(v) /\ LinkedObject(t) /\ v # t
        /\ built[v].compiledSrcs = <<>> /\ ObjEdges(v) = <<Edge(t, objDepTag)>>
        /\ Len(built[t].compiledSrcs) = 1
        /\ built[v].outputFile = built[t].compiledSrcs
        /\ built[v].linkAction = ""

\* An object with one source that names an object: both are merged, the own
\* object first.
ObjectsMerged ==
    \E v, t \in DOMAIN mods :
        /\ LinkedObject(v) /\ ObjEdges(v) = <<Edge(t, objDepTag)>>
        /\ Len(built[v].compiledSrcs) = 1
        /\ built[v].linkInputs = built[v].compiledSrcs \o built[t].outputFile
        /\ built[v].outputFile = << <<v[1], v[2], ".o">> >>

NdkPrebuiltKinds == {"ndk_prebuilt_object", "ndk_prebuilt_library", "ndk_prebuilt_stl"}

\* The variant is an NDK prebuilt that GenerateAndroidBuildActions ran on.
NdkPrebuiltGenerated(v) ==
    pc[v] = "built" /\ mods[v].kind \in NdkPrebuiltKinds /\ built[v].ran # <<>>

\* The names with the prefix ndk_crt, and those with the prefix ndk_lib.
CrtPrefixed == {"ndk_crtbegin_so.9"}
LibPrefixed == {"ndk_libc.9", "ndk_libc++_shared", "ndk_libgnustl_static", "ndk_libfoo_static"}

LacksRequiredPrefix(m) ==
    IF m.kind = "ndk_prebuilt_object" THEN m.name \notin CrtPrefixed
    ELSE m.name \notin LibPrefixed

PrefixError(m) ==
    IF m.kind = "ndk_prebuilt_object"
    THEN ModuleError("NDK prebuilts must have an ndk_crt prefixed name", m.name)
    ELSE ModuleError("NDK prebuilts must have an ndk_lib prefixed name", m.name)

\* The prebuilt STLs whose name is none of libstlport, libc++ and libgnustl
\* once the prefix ndk_ and the suffix _shared or _static are cut off.
UnknownStl(m) ==
    m.kind = "ndk_prebuilt_stl"
    /\ m.name \notin {"ndk_libc++_shared", "ndk_libgnustl_static", "libc++_static"}

\* The variant compiled nothing and its link step created no build action.
NoCompileNoAction(v) ==
    /\ built[v].compiledSrcs = <<>>
    /\ built[v].objFiles = <<>>
    /\ ~inList("compile", built[v].ran)
    /\ inList("link", built[v].ran)
    /\ built[v].linkAction = ""
    /\ built[v].linkInputs = <<>>

\* C21 as stated: an NDK prebuilt variant compiles nothing; its link step
\* reports a module error if and only if the module name lacks the required
\* prefix (ndk_crt for objects, ndk_lib for libraries and STLs), and
\* otherwise only computes the path of the artifact, without a build action.
C21_ErrorIffPrefixMissing ==
    \A v \in DOMAIN mods :
        NdkPrebuiltGenerated(v) =>
           /\ NoCompileNoAction(v)
           /\ (errs[v] # <<>>) <=> LacksRequiredPrefix(mods[v])
           /\ errs[v] = <<>> => built[v].outputFile # <<>>

\* C21 amended: an NDK prebuilt variant compiles nothing and its link step
\* creates no build action; the step reports the prefix error if and only if
\* the module name lacks the required prefix, a prebuilt STL also reports
\* "Unknown NDK STL" if and only if its name is none of the known STLs, no
\* other error is reported, and the path of the artifact is recorded exactly
\* when no error was reported.
C21_PrefixErrorIffPrefixMissing ==
    \A v \in DOMAIN mods :
        NdkPrebuiltGenerated(v) =>
           /\ NoCompileNoAction(v)
           /\ (PrefixError(mods[v]) \in Range(errs[v])) <=> LacksRequiredPrefix(mods[v])
           /\ (\E e \in Range(errs[v]) : e.what = "Unknown NDK STL") <=> UnknownStl(mods[v])
           /\ \A e \in Range(errs[v]) : e = PrefixError(mods[v]) \/ e.what = "Unknown NDK STL"
           /\ (built[v].outputFile # <<>>) <=> (errs[v] = <<>>)

\* A prebuilt object whose name has the prefix of the libraries is generated:
\* it has the prefix error, no path, no compilation and no build action.
C21_Witness ==
    \E v \in DOMAIN mods :
        /\ NdkPrebuiltGenerated(v) /\ NoCompileNoAction(v)
        /\ mods[v].kind = "ndk_prebuilt_object" /\ mods[v].name = "ndk_libc.9"
        /\ errs[v] = <<PrefixError(mods[v])>> /\ built[v].outputFile = <<>>

\* A prebuilt library with its prefix is generated: no error, a path, its
\* include flag exported, and no build action.
NdkLibraryPathOnly ==
    \E v \in DOMAIN mods :
        /\ NdkPrebuiltGenerated(v) /\ NoCompileNoAction(v)
        /\ mods[v].kind = "ndk_prebuilt_library" /\ mods[v].name = "ndk_libc.9"
        /\ errs[v] = <<>> /\ built[v].outputFile # <<>>
        /\ built[v].exportedFlags = <<"-isystem ndk/include">>

\* A prebuilt STL with the prefix and a name outside the known STLs is
\* generated: it has the error of getNdkStlLibDir and no path.
NdkStlUnknown ==
    \E v \in DOMAIN mods :
        /\ NdkPrebuiltGenerated(v)
        /\ mods[v].kind = "ndk_prebuilt_stl" /\ mods[v].name = "ndk_libfoo_static"
        /\ errs[v] = <<ModuleError("Unknown NDK STL", "libfoo")>>
        /\ built[v].outputFile = <<>>

\* A device variant that has been classified.
ClassifiedDevice(v) == Classified(v) /\ Device(mods[v]) /\ IsBaseLinker(mods[v])

\* C22: for a classified device variant that is not static, the late-shared
\* bucket is empty if system_shared_libs is set to the empty list, holds
\* exactly the (deduplicated) names of system_shared_libs if it is set to a
\* non-empty list, and holds exactly libc and libm if it is unset and the
\* module has no sdk_version; the late-shared bucket of a static variant is
\* empty whatever system_shared_libs says.
C22_SystemSharedLibsByProperty ==
    \A v \in DOMAIN mods :
        ClassifiedDevice(v) /\ mods[v].kind \in {"library", "binary", "test"} =>
           LET m == mods[v]
               late == classified[v].LateSharedLibs
           IN  /\ ~static(m) /\ m.System_shared_libs_set /\ m.System_shared_libs = <<>> =>
                     /\ late = <<>>
                     /\ ~inList("libc", late) /\ ~inList("libm", late)
               /\ ~static(m) /\ m.System_shared_libs_set /\ m.System_shared_libs # <<>> =>
                     OrderedByLastOccurrence(late, m.System_shared_libs)
               /\ ~static(m) /\ ~m.System_shared_libs_set /\ m.Sdk_version = "" =>
                     late = <<"libc", "libm">>
               /\ static(m) => late = <<>>

\* A device shared library with system_shared_libs [libdl, libc, libdl] is
\* classified with the late-shared bucket [libc, libdl].
C22_Witness ==
    \E v \in DOMAIN mods :
        /\ ClassifiedDevice(v) /\ ~static(mods[v])
        /\ mods[v].System_shared_libs_set
        /\ mods[v].System_shared_libs = <<"libdl", "libc", "libdl">>
        /\ classified[v].LateSharedLibs = <<"libc", "libdl">>

\* A device variant with system_shared_libs set to the empty list is
\* classified without libc and libm.
EmptySystemSharedLibs ==
    \E v \in DOMAIN mods :
        /\ ClassifiedDevice(v) /\ ~static(mods[v]) /\ mods[v].Sdk_version = ""
        /\ mods[v].System_shared_libs_set /\ mods[v].System_shared_libs = <<>>
        /\ classified[v].LateSharedLibs = <<>>

\* A device variant with system_shared_libs unset and no sdk_version is
\* classified with libc and libm.
DefaultSystemSharedLibs ==
    \E v \in DOMAIN mods :
        /\ ClassifiedDevice(v) /\ ~static(mods[v]) /\ mods[v].Sdk_version = ""
        /\ ~mods[v].System_shared_libs_set
        /\ classified[v].LateSharedLibs = <<"libc", "libm">>

\* A static device variant, a library and a static executable, that sets
\* system_shared_libs to a non-empty list is classified with none.
StaticWithoutSystemSharedLibs ==
    \E v \in DOMAIN mods :
        /\ ClassifiedDevice(v) /\ static(mods[v]) /\ mods[v].kind = "binary"
        /\ mods[v].System_shared_libs = <<"libc">>
        /\ classified[v].LateSharedLibs = <<>>

\* GenerateAndroidBuildActions or a repeated resolution runs on the variant c.
Resolves(c) == Generate(c) \/ Rerun(c)

\* C23: a step that resolves a consumer c leaves the record of every other
\* variant that has been generated, in particular its recorded
\* missing-dependency list, its object list and its exported flags, as it
\* was before the step, in every interleaving of the resolutions.
C23_ResolutionLeavesDependenciesAlone ==
    [][\A c \in DOMAIN mods : Resolves(c) =>
          \A w \in DOMAIN mods \ {c} :
              pc[w] = "built" =>
                 /\ built'[w].wholeStaticMissingDeps = built[w].wholeStaticMissingDeps
                 /\ built'[w].objFiles = built[w].objFiles
                 /\ built'[w].exportedFlags = built[w].exportedFlags
      ]_vars

\* The object list and the exported flags of a generated variant are left
\* alone by every resolution of another variant.
ObjectsAndFlagsLeftAlone ==
    [][\A c \in DOMAIN mods : Resolves(c) =>
          \A w \in DOMAIN mods \ {c} :
              pc[w] = "built" =>
                 /\ built'[w].objFiles = built[w].objFiles
                 /\ built'[w].exportedFlags = built[w].exportedFlags
                 /\ built'[w].outputFile = built[w].outputFile
      ]_vars

\* Two consumers of the static library libw have linked, and the missing
\* dependency libw recorded carries the annotation of both resolutions.
DependencyRecordRewritten ==
    \E c1, c2 \in DOMAIN mods :
        /\ c1 # c2 /\ HasOutput(c1) /\ HasOutput(c2) /\ nreruns = 0
        /\ \E i \in 1..Len(edges[c1]) : edges[c1][i] = Edge(<<"libw", "static">>, wholeStaticDepTag)
        /\ \E i \in 1..Len(edges[c2]) : edges[c2][i] = Edge(<<"libw", "static">>, wholeStaticDepTag)
        /\ \E k \in 1..Len(built[<<"libw", "static">>].wholeStaticMissingDeps) :
              built[<<"libw", "static">>].wholeStaticMissingDeps[k].requiredBy = <<"libw", "libw">>

\* The edges of v to the variant t whose tag has the name n.
EdgesTo(v, t, n) == {i \in 1..Len(edges[v]) : edges[v][i].to = t /\ edges[v][i].tag.name = n}

\* The variant v has exactly one edge with the tag name n to the variation
\* of every name of the bucket that has one, and the edge to a library is a
\* re-export edge if and only if the library is in the re-export list.
OneEdgePerName(v, bucket, reexport, n) ==
    \A k \in 1..Len(bucket) :
        <<bucket[k], n>> \in DOMAIN mods =>
           /\ Cardinality(EdgesTo(v, <<bucket[k], n>>, n)) = 1
           /\ \A i \in EdgesTo(v, <<bucket[k], n>>, n) :
                 edges[v][i].tag.reexportFlags <=> inList(bucket[k], reexport)

\* C24: a variant that depsMutator has run on has exactly one static (resp.
\* shared) edge per name of its deduplicated static (resp. shared) bucket,
\* and the edge to the library L is tagged re-export if and only if L is in
\* the static (resp. shared) re-export list, whatever else is re-exported.
C24_OneEdgePerNameTaggedByOwnReexport ==
    \A v \in DOMAIN mods :
        Classified(v) =>
           /\ OneEdgePerName(v, classified[v].StaticLibs,
                             classified[v].ReexportStaticLibHeaders, "static")
           /\ OneEdgePerName(v, classified[v].SharedLibs,
                             classified[v].ReexportSharedLibHeaders, "shared")

\* The same for the variants whose static and shared buckets hold at most
\* one name that has the variation.
SingleNameBucketsTaggedByOwnReexport ==
    \A v \in DOMAIN mods :
        /\ Classified(v)
        /\ Cardinality({k \in 1..Len(classified[v].StaticLibs) :
                           <<classified[v].StaticLibs[k], "static">> \in DOMAIN mods}) <= 1
        /\ Len(classified[v].StaticLibs) <= 1
        /\ Len(classified[v].SharedLibs) <= 1
        =>
           /\ OneEdgePerName(v, classified[v].StaticLibs,
                             classified[v].ReexportStaticLibHeaders, "static")
           /\ OneEdgePerName(v, classified[v].SharedLibs,
                             classified[v].ReexportSharedLibHeaders, "shared")

\* libb names the static libraries liba and libx and re-exports liba only:
\* it has one static edge to libx for every name of its static bucket, and
\* one of them is a re-export edge.
EdgeTaggedByOtherLibrary ==
    \E v \in DOMAIN mods :
        /\ Classified(v)
        /\ mods[v].Static_libs = <<"liba", "libx">>
        /\ classified[v].ReexportStaticLibHeaders = <<"liba">>
        /\ Cardinality(EdgesTo(v, <<"libx", "static">>, "static")) = Len(classified[v].StaticLibs)
        /\ Len(classified[v].StaticLibs) > 1
        /\ \E i \in EdgesTo(v, <<"libx", "static">>, "static") :
              edges[v][i].tag = staticExportDepTag

\* A binary or test that has linked.
LinkedBinary(v) == HasOutput(v) /\ mods[v].kind \in {"binary", "test"}

Strips(m) == ~m.EmbeddedInMake /\ ~m.Strip_none
PrefixesSymbols(m) == m.Prefix_symbols # ""

\* The transforms of the variant created by the rule, or by the strip rules.
PrefixTransforms(v) ==
    SelectSeq(built[v].postLink, LAMBDA t : t.rule = "TransformBinaryPrefixSymbols")
StripTransforms(v) ==
    SelectSeq(built[v].postLink, LAMBDA t : t.rule \in {"TransformStrip", "TransformDarwinStrip"})

\* A linked binary with stripping and a symbol prefix has exactly the link
\* transform, one strip and one prefix-symbols transform.
OneStripOnePrefix(v) ==
    /\ Len(built[v].postLink) = 2
    /\ Len(StripTransforms(v)) = 1 /\ Len(PrefixTransforms(v)) = 1
    /\ Len(built[v].linkOutput) = 1
    /\ built[v].linkAction = "TransformObjToDynamicBinary"

\* C25 as stated: for a linked binary with stripping and prefix_symbols, the
\* strip transform reads the link output, the prefix-symbols transform reads
\* the stripped file, and the output of the prefix-symbols transform is the
\* path binaryLinker.link returns.
C25_PrefixSymbolsAfterStrip ==
    \A v \in DOMAIN mods :
        LinkedBinary(v) /\ Strips(mods[v]) /\ PrefixesSymbols(mods[v]) =>
           /\ OneStripOnePrefix(v)
           /\ StripTransforms(v)[1].in = built[v].linkOutput[1]
           /\ PrefixTransforms(v)[1].in = StripTransforms(v)[1].out
           /\ PrefixTransforms(v)[1].out = built[v].outputFile[1]

\* C25 amended: for a linked binary with stripping and prefix_symbols, the
\* symbol-prefixing transform runs before stripping: the prefix-symbols
\* transform reads the link output (unprefixed/), the strip transform reads
\* the output of the prefix-symbols transform (unstripped/), and the output
\* of the strip transform is the path binaryLinker.link returns; with one
\* of the two only, that transform reads the link output and writes the
\* returned path, and with neither the link writes the returned path.
C25_StripAfterPrefixSymbols ==
    \A v \in DOMAIN mods :
        LinkedBinary(v) =>
           LET b == built[v]
               m == mods[v]
           IN  /\ Strips(m) /\ PrefixesSymbols(m) =>
                     /\ OneStripOnePrefix(v)
                     /\ PrefixTransforms(v)[1].in = b.linkOutput[1]
                     /\ StripTransforms(v)[1].in = PrefixTransforms(v)[1].out
                     /\ StripTransforms(v)[1].out = b.outputFile[1]
                     /\ Cardinality({b.linkOutput[1], PrefixTransforms(v)[1].out,
                                     b.outputFile[1]}) = 3
               /\ Strips(m) /\ ~PrefixesSymbols(m) =>
                     /\ Len(b.postLink) = 1 /\ Len(StripTransforms(v)) = 1
                     /\ StripTransforms(v)[1].in = b.linkOutput[1]
                     /\ StripTransforms(v)[1].out = b.outputFile[1]
                     /\ b.linkOutput # b.outputFile
               /\ ~Strips(m) /\ PrefixesSymbols(m) =>
                     /\ Len(b.postLink) = 1 /\ Len(PrefixTransforms(v)) = 1
                     /\ PrefixTransforms(v)[1].in = b.linkOutput[1]
                     /\ PrefixTransforms(v)[1].out = b.outputFile[1]
                     /\ b.linkOutput # b.outputFile
               /\ ~Strips(m) /\ ~PrefixesSymbols(m) =>
                     b.postLink = <<>> /\ b.linkOutput = b.outputFile

\* A binary with stripping and the symbol prefix pfx_ has linked: the link
\* writes unprefixed/app, and the returned path app is written by the strip.
C25_Witness ==
    \E v \in DOMAIN mods :
        /\ LinkedBinary(v) /\ Strips(mods[v]) /\ mods[v].Prefix_symbols = "pfx_"
        /\ built[v].linkOutput = << <<v[1], v[2], "unprefixed", "app">> >>
        /\ built[v].outputFile = << <<v[1], v[2], "app">> >>
        /\ StripTransforms(v) = <<Transform("TransformStrip",
                                            <<v[1], v[2], "unstripped", "app">>,
                                            <<v[1], v[2], "app">>)>>
        /\ PrefixTransforms(v)[1].out = <<v[1], v[2], "unstripped", "app">>

\* linkageMutator has put the variant in a link variation.
InLinkVariation(v) == pc[v] # "new" /\ Len(v) >= 2 /\ v[2] \in {"static", "shared"}

\* C26: a variant that linkageMutator created reports static() exactly when
\* it is in the static link variation, at every later stage; in particular
\* a variant in the shared variation never reports static() = true.
C26_StaticAgreesWithVariation ==
    \A v \in DOMAIN mods :
        InLinkVariation(v) => (static(mods[v]) <=> v[2] = "static")

\* No step after the one of linkageMutator changes the static/shared flag
\* of a variant.
StaticFlagNeverChanges ==
    [][\A v \in DOMAIN mods :
          InLinkVariation(v) /\ v \in DOMAIN mods' =>
             mods'[v].VariantIsStatic = mods[v].VariantIsStatic]_vars

\* The variants of libraries report static() exactly when they are in the
\* static variation, and so does every variant right after linkageMutator.
LibraryStaticAgreesWithVariation ==
    \A v \in DOMAIN mods :
        InLinkVariation(v) /\ (mods[v].kind = "library" \/ pc[v] \in {"link", "test_per_src"}) =>
           (static(mods[v]) <=> v[2] = "static")

\* A binary declared as a static executable is in the shared variation and,
\* once depsMutator has run on it, reports static() = true.
StaticExecutableInSharedVariation ==
    \E v \in DOMAIN mods :
        /\ Classified(v) /\ mods[v].kind = "binary" /\ mods[v].Static_executable
        /\ v[2] = "shared" /\ static(mods[v]) /\ staticBinary(mods[v])

\* The link variation the names of a bucket are requested in.
BucketVariation(b) ==
    IF b \in {"SharedLibs", "LateSharedLibs"} THEN "shared" ELSE "static"

\* The names of the bucket b of v that have a module, in the bucket's order.
DeclaredNames(v, b) ==
    SelectSeq(classified[v][b], LAMBDA n : \E x \in DOMAIN mods : x[1] = n)

\* The output files of the variants the names of a list stand for.
PathsOfNames(names, variation) ==
    [k \in 1..Len(names) |-> built[<<names[k], variation>>].outputFile[1]]

\* Every name of the bucket stands for a variant that has an output file.
AllResolvable(names, variation) ==
    \A k \in 1..Len(names) :
        /\ <<names[k], variation>> \in DOMAIN mods
        /\ HasOutput(<<names[k], variation>>)

\* C27: for a variant that depsToPaths has resolved and every library
\* bucket, the resolved path list holds exactly the output files of the
\* names of the deduplicated bucket, one per name and in the bucket's order.
C27_OnePathPerNameInBucketOrder ==
    \A v \in DOMAIN mods :
        HasOutput(v) /\ nreruns = 0 =>
           \A b \in DedupedBuckets :
              AllResolvable(DeclaredNames(v, b), BucketVariation(b)) =>
                 built[v].pathDeps[b] = PathsOfNames(DeclaredNames(v, b), BucketVariation(b))

\* The same for the buckets that depsMutator requests with one call, and for
\* a static or shared bucket with at most one name.
OnePathPerNameOutsideLoops ==
    \A v \in DOMAIN mods :
        HasOutput(v) /\ nreruns = 0 =>
           \A b \in DedupedBuckets :
              /\ AllResolvable(DeclaredNames(v, b), BucketVariation(b))
              /\ (b \in {"StaticLibs", "SharedLibs"} => Len(classified[v][b]) <= 1)
              => built[v].pathDeps[b] = PathsOfNames(DeclaredNames(v, b), BucketVariation(b))

\* A library that names the static libraries liba and libx has linked with
\* the path of liba more than once in its static path list.
PathRepeated ==
    \E v \in DOMAIN mods :
        /\ HasOutput(v) /\ nreruns = 0
        /\ mods[v].Static_libs = <<"liba", "libx">>
        /\ Cardinality(Positions(built[v].pathDeps.StaticLibs,
                                 built[<<"liba", "static">>].outputFile[1])) > 1

GroupLibs == {"libc", "libc_nomalloc", "libcompiler_rt"}

\* A classified binary or test.
ClassifiedExecutable(v) == Classified(v) /\ mods[v].kind \in {"binary", "test"}
DeviceStaticExecutable(m) == m.os = "android" /\ m.VariantIsStaticBinary

\* The static libraries an executable asks for: the declared ones and, for a
\* device static executable that names libc++_static, libm, libc and libdl.
RequestedStaticLibs(m) ==
    m.Static_libs \o
        (IF DeviceStaticExecutable(m) /\ inList("libc++_static", m.Static_libs)
         THEN <<"libm", "libc", "libdl">> ELSE <<>>)

\* The late static libraries baseLinker.deps adds on the device.
LateTail(m) ==
    IF m.os # "android" THEN <<>>
    ELSE IF m.No_libgcc THEN <<"libatomic">> ELSE <<"libatomic", "libgcc">>

\* C28: a classified device static executable has none of libc,
\* libc_nomalloc and libcompiler_rt in its static bucket and keeps every
\* other static library there; its late-static bucket is the group
\* libraries it asked for, in their relative order (one copy each, by last
\* occurrence), followed by libatomic and libgcc.  A dynamic executable and
\* a host executable keep every declared static library in the static
\* bucket and have only libatomic and libgcc (nothing on the host) in the
\* late-static bucket.
C28_GroupLibsMovedToFrontOfLate ==
    \A v \in DOMAIN mods :
        ClassifiedExecutable(v) =>
           LET m == mods[v]
               st == classified[v].StaticLibs
               late == classified[v].LateStaticLibs
               nmoved == Len(late) - Len(LateTail(m))
               asked == SelectSeq(RequestedStaticLibs(m), LAMBDA n : n \in GroupLibs)
           IN  IF DeviceStaticExecutable(m)
               THEN /\ Range(st) \cap GroupLibs = {}
                    /\ Range(RequestedStaticLibs(m)) \ GroupLibs \subseteq Range(st)
                    /\ nmoved >= 0
                    /\ SubSeq(late, nmoved + 1, Len(late)) = LateTail(m)
                    /\ OrderedByLastOccurrence(SubSeq(late, 1, nmoved), asked)
               ELSE /\ Range(m.Static_libs) \subseteq Range(st)
                    /\ late = LateTail(m)

\* A device static executable with static libs [libcompiler_rt, libc++_static, libc_nomalloc]
\* is classified with [libcompiler_rt, libc_nomalloc, libc, libatomic, libgcc]
\* as its late-static bucket and no group library in its static bucket.
C28_Witness ==
    \E v \in DOMAIN mods :
        /\ ClassifiedExecutable(v) /\ DeviceStaticExecutable(mods[v])
        /\ mods[v].Static_libs = <<"libcompiler_rt", "libc++_static", "libc_nomalloc">>
        /\ classified[v].LateStaticLibs =
              <<"libcompiler_rt", "libc_nomalloc", "libc", "libatomic", "libgcc">>
        /\ Range(classified[v].StaticLibs) \cap GroupLibs = {}
        /\ inList("libc++_static", classified[v].StaticLibs)

\* A dynamic device executable and a host static executable that name libc
\* and libcompiler_rt keep both in the static bucket.
NothingMovedForDynamicOrHost ==
    \E v \in DOMAIN mods :
        /\ ClassifiedExecutable(v) /\ ~DeviceStaticExecutable(mods[v])
        /\ mods[v].os = "linux" /\ mods[v].VariantIsStaticBinary
        /\ mods[v].Static_libs = <<"libc", "libcompiler_rt">>
        /\ SubSeq(classified[v].StaticLibs, 1, 2) = <<"libc", "libcompiler_rt">>
        /\ classified[v].LateStaticLibs = <<>>

\* The flags the Clang denylist removes.
ClangUnknown == {"-finline-limit=64", "-fno-tree-sra"}

\* A variant built with Clang whose flags have been composed and that has
\* linked.
LinkedWithClang(v) == HasOutput(v) /\ mods[v].Clang /\ inList("compile", built[v].ran)

\* The per-link-mode cflags of a variant.
PerModeCflags(m) ==
    IF m.kind # "library" THEN <<>>
    ELSE IF m.VariantIsStatic THEN m.Static.Cflags ELSE m.Shared.Cflags

\* C29: after all composition stages of a variant built with Clang, the C,
\* C++, C-only and linker flag lists hold no flag of the Clang denylist,
\* whichever property supplied it.
C29_NoClangUnknownFlagSurvives ==
    \A v \in DOMAIN mods :
        LinkedWithClang(v) =>
           /\ Range(built[v].cflagsVar) \cap ClangUnknown = {}
           /\ Range(built[v].cppflagsVar) \cap ClangUnknown = {}
           /\ Range(built[v].conlyFlags) \cap ClangUnknown = {}
           /\ Range(built[v].ldFlags) \cap ClangUnknown = {}

\* What does hold: the C++ and C-only lists hold no flag of the denylist,
\* and a flag of the denylist in the C list comes from clang_cflags or the
\* per-link-mode cflags, and one in the linker list from the ldflags of a
\* library or executable.
OnlyEarlyFlagsFiltered ==
    \A v \in DOMAIN mods :
        LinkedWithClang(v) =>
           /\ Range(built[v].cflagsVar) \cap ClangUnknown
                 = (Range(mods[v].Clang_cflags) \cup Range(PerModeCflags(mods[v])))
                   \cap ClangUnknown
           /\ Range(built[v].cppflagsVar) \cap ClangUnknown = {}
           /\ Range(built[v].conlyFlags) \cap ClangUnknown = {}
           /\ Range(built[v].ldFlags) \cap ClangUnknown
                 = IF IsBaseLinker(mods[v]) THEN Range(mods[v].Ldflags) \cap ClangUnknown
                   ELSE {}

\* A variant built with Clang has linked with -fno-tree-sra, from its
\* ldflags, among its linker flags, while the same flag from its cflags and
\* cppflags was removed.
UnknownLdflagSurvives ==
    \E v \in DOMAIN mods :
        /\ LinkedWithClang(v)
        /\ mods[v].Ldflags = <<"-fno-tree-sra">> /\ inList("-fno-tree-sra", built[v].ldFlags)
        /\ inList("-fno-tree-sra", mods[v].Cflags) /\ inList("-fno-tree-sra", mods[v].Cppflags)
        /\ mods[v].Clang_cflags = <<>> /\ PerModeCflags(mods[v]) = <<>>
        /\ ~inList("-fno-tree-sra", built[v].cflagsVar)
        /\ ~inList("-fno-tree-sra", built[v].cppflagsVar)

\* A static library built with Clang has -finline-limit=64, from its
\* per-link-mode cflags, among its C flags.
UnknownPerModeCflagSurvives ==
    \E v \in DOMAIN mods :
        /\ LinkedWithClang(v) /\ mods[v].kind = "library" /\ mods[v].VariantIsStatic
        /\ mods[v].Static.Cflags = <<"-finline-limit=64">>
        /\ mods[v].Clang_cflags = <<>> /\ mods[v].Ldflags = <<>>
        /\ inList("-finline-limit=64", built[v].cflagsVar)

\* The C flags a variant declares, in the order the stages append them: the
\* cflags, the release cflags, under Clang the clang_cflags, and for a
\* library the cflags of its link mode.
DeclaredCFlags(m) ==
    ((m.Cflags \o m.Release_cflags) \o (IF m.Clang THEN m.Clang_cflags ELSE <<>>))
    \o PerModeCflags(m)

\* A flag in no denylist.
InNoDenylist(x) == x \notin Range(illegalFlags) \cup ClangUnknown

\* The flags of a list that are in no denylist, in the order of the list.
Allowed(list) == SelectSeq(list, InNoDenylist)

\* The flags of a composed list that the variant declared and that are in no
\* denylist, in the order of the composed list.
DeclaredPart(m, list) ==
    SelectSeq(list, LAMBDA x : InNoDenylist(x) /\ x \in Range(DeclaredCFlags(m)))

\* A variant with a compiler whose C flags have been composed, stripped of the
\* illegal flags and recorded.
Composed(v) == pc[v] = "built" /\ HasCompiler(mods[v]) /\ inList("depsToPaths", built[v].ran)

\* C30: in the composed C flag list of every variant, the declared flags
\* that are in no denylist are the cflags, the release cflags, the
\* clang_cflags and the per-link-mode cflags in this order, each list in its
\* declared order, and a flag supplied k times appears k times.
C30_NoDedupNoReorder ==
    \A v \in DOMAIN mods :
        Composed(v) =>
           /\ DeclaredPart(mods[v], built[v].cflagsVar) = Allowed(DeclaredCFlags(mods[v]))
           /\ \A x \in Range(Allowed(DeclaredCFlags(mods[v]))) :
                 Occurrences(built[v].cflagsVar, x) = Occurrences(DeclaredCFlags(mods[v]), x)

\* A static library built with Clang declares -DX twice in its cflags and
\* once in each of its release cflags, clang_cflags and static cflags, and
\* its composed C flags hold -DX five times.
C30_Witness ==
    \E v \in DOMAIN mods :
        /\ Composed(v) /\ mods[v].kind = "library" /\ mods[v].VariantIsStatic /\ mods[v].Clang
        /\ mods[v].Cflags = <<"-DX", "-fno-tree-sra", "-DX">>
        /\ mods[v].Release_cflags = <<"-DR", "-DX">>
        /\ mods[v].Clang_cflags = <<"-DC", "-DX">>
        /\ mods[v].Static.Cflags = <<"-DM", "-DX">>
        /\ Occurrences(built[v].cflagsVar, "-DX") = 5
        /\ DeclaredPart(mods[v], built[v].cflagsVar)
              = <<"-DX", "-DX", "-DR", "-DX", "-DC", "-DX", "-DM", "-DX">>

====
